---- MODULE Spec2Model ----
(***************************************************************************)
(* Connection orchestration of mcp-agent-ts: MCPConnectionManager and      *)
(* MCPAggregator (connectionManager.ts / aggregator.ts) over the           *)
(* MCPServerRegistry (serverRegistry.ts).                                  *)
(*                                                                         *)
(* Execution is single-threaded and cooperative: every action below is the *)
(* code that runs between two suspension points (await) of one async call. *)
(* A continuation of an already settled promise is a microtask and runs    *)
(* before any timer or I/O completion (MicroPending).                      *)
(*                                                                         *)
(* The first part is one MCPConnectionManager in detail (SpecGet: callers  *)
(* of getConnection; SpecCM: the same with the health-check timer).  The   *)
(* second part is the MCPAggregator over the context it shares (SpecShared:*)
(* two Aggregators and the managers they create; SpecAgg: one Aggregator,  *)
(* its loads and the calls routed through it).  There a manager is what    *)
(* the Aggregator sees of it: initialize(), close(), and getConnection     *)
(* that is accepted or not and then succeeds or fails.                     *)
(***************************************************************************)
EXTENDS Integers, Sequences, FiniteSets, TLC

\* ------------------------------------------------------------ bounds
\* ConnectionState objects ever created by the manager
MaxStates == 3
\* options.maxRetries of the manager under check (the claim's N)
MaxRetries == 2
\* concurrent async calls (getConnection / closeConnection / reconnect)
NumTasks == 2

\* two server names, one a prefix of the other up to the separator
Servers == {"a", "a_b"}
Tasks == 1..NumTasks
NoState == 0

VARIABLES
    mInitialized,   \* MCPConnectionManager.initialized
    mClosing,       \* MCPConnectionManager.closing
    timerOn,        \* healthCheckTimer is set
    connections,    \* MCPConnectionManager.connections: server -> state id
    st,             \* the ConnectionState objects ever created, by id
    tasks,          \* the async calls in progress, and each one's last result
    regServers,     \* MCPServerRegistry.servers (the names)
    regConn,        \* MCPServerRegistry.connections: server -> state id whose
                    \* connection object is stored
    regConfig,      \* MCPServerRegistry.servers: the config stored per name
    regRes,         \* history: the last call of the registry, what it
                    \* returned or threw and the events it emitted
    lastRes,        \* history: what the call that returned last returned
    ticks,          \* history: parity of the health-check ticks so far
    lastTick        \* history: what the last tick saw

mgrFlags == <<mInitialized, mClosing, timerOn>>
registry == <<regServers, regConn, regConfig, regRes>>
tickHist == <<ticks, lastTick>>

cmVars == <<mgrFlags, connections, st, tasks, registry, lastRes, tickHist>>

VARIABLES
    persist,      \* MCPAggregator.connectionPersistence
    serverNames,  \* MCPAggregator.serverNames
    initialized,  \* MCPAggregator.initialized
    pcm,          \* MCPAggregator.persistentConnectionManager (manager id)
    nsMap,        \* namespacedToolMap / namespacedPromptMap /
                  \* namespacedResourceMap, by capability class
    srvMap,       \* serverToToolMap / serverToPromptMap /
                  \* serverToResourceMap, by capability class
    life,         \* the initialize() / close() call in progress
    load,         \* the loadServerCapabilities call per server
    refCount,     \* context._mcp_connection_manager_ref_count
    ctxMgr,       \* context._mcp_connection_manager (manager id)
    mgrs,         \* the MCPConnectionManager objects Aggregators created
    catalog,      \* the names each server's session reports
    call,         \* the callTool / getPrompt / readResource call in progress
    eff           \* history: what the last step did

\* what the constructor is given and what the servers report
config == <<persist, serverNames, catalog>>

\* the six maps
maps == <<nsMap, srvMap>>

aggVars == <<config, initialized, pcm, maps, life, load, refCount, ctxMgr,
             mgrs, call, eff>>

vars == <<cmVars, aggVars>>

\* ------------------------------------------------------------ helpers

StateIds == 1..Len(st)

\* isConnectionHealthy: state.client is set by the constructor of the state
IsConnectionHealthy(s) == s.connected /\ ~s.error /\ s.session

Pending(s) == s.phase \in {"transport", "connecting"}
Settled(s) == s.phase \in {"ok", "fail"}

\* connect attempts to S that have not settled
InFlight(S) == {k \in StateIds : st[k].server = S /\ Pending(st[k])}

Tracked == {S \in Servers : connections[S] # NoState}
HealthyNow == {S \in Tracked : IsConnectionHealthy(st[connections[S]])}

IdleTask == [op |-> "none", server |-> "none", pc |-> "idle", sid |-> NoState,
             waited |-> FALSE]

IdleTasks == {t \in Tasks : tasks[t].pc = "idle"}

\* Task ids are names only: a new call takes the first free one.
FirstIdle == CHOOSE t \in IdleTasks : \A u \in IdleTasks : t <= u

\* options.connectionTimeout (its default)
ConnectionTimeout == 30000

\* the errors initializeConnection catches and stores in state.error
NoError == [class |-> "none"]
PlainError == [class |-> "Error"]
ConfigError == [class |-> "ConfigurationError"]
\* new TimeoutError(errorMessage, timeoutMs)
TimeoutError(ms) == [class |-> "TimeoutError", timeoutMs |-> ms]

\* the state object createConnection builds.  cause: the error object
\* state.error holds; late: the client.connect promise of an attempt whose
\* timer fired first ("pending", then "open" or "rejected"); emitted: the
\* 'connection-closed' events of the closeConnection calls that took this
\* state from the map; established: 'connection-established' was emitted
\* for this state's connection; thrown: the error initializeConnection
\* threw, with which initPromise rejects
NewState(S, rc, op) ==
    [server |-> S, connected |-> FALSE, session |-> FALSE,
     transport |-> FALSE, error |-> FALSE, retryCount |-> rc,
     initPromise |-> TRUE, phase |-> "transport",
     clientClosed |-> FALSE, transportClosed |-> FALSE, via |-> op,
     cause |-> NoError, late |-> "none", emitted |-> 0,
     established |-> FALSE, thrown |-> NoError]

\* the call of task t returns (c: the connection object of state c) or
\* throws (res: the error class); cached: it returned state.connection of
\* the state it found in the map, having awaited nothing
Returned(t, op, S, res, c, w) ==
    /\ tasks' = [tasks EXCEPT ![t] = IdleTask]
    /\ lastRes' = [op |-> op, server |-> S, res |-> res, conn |-> c,
                   waited |-> w,
                   cached |-> /\ res = "conn"
                              /\ tasks[t].pc \notin {"awaitOwn",
                                                     "awaitExisting"}]

\* A continuation of a settled promise is queued: it runs before any timer
\* or I/O event.
MicroPending ==
    \/ \E k \in StateIds : st[k].phase = "transport"
    \/ \E t \in Tasks :
         \/ tasks[t].pc \in {"awaitOwn", "awaitExisting"}
              /\ Settled(st[tasks[t].sid])
         \/ tasks[t].pc = "recGet"
    \/ mClosing /\ \A t \in Tasks : tasks[t].op # "closeAll"

\* ------------------------------------------------------------ registry

\* an optional field of ServerConfig that is undefined (or empty)
NoValue == "undefined"
\* values of config.transport: unset, the three of the type, and one outside
Transports == {NoValue, "stdio", "http", "websocket", "ftp"}
Commands == {NoValue, "node"}
Urls == {NoValue, "ws://h"}

\* the ServerConfig objects callers pass
Configs == [transport : Transports, command : Commands, url : Urls]

\* names callers pass to the registry
RegNames == Servers \cup {""}

NoConfig == [name |-> "none", transport |-> NoValue, command |-> NoValue,
             url |-> NoValue]

\* validateConfig sets the default transport on the config it is given
Defaulted(cfg) ==
    IF cfg.transport = NoValue THEN [cfg EXCEPT !.transport = "stdio"]
    ELSE cfg

\* validateConfig: "ok", or the class of the error it throws
ValidateConfig(cfg) ==
    LET c == Defaulted(cfg) IN
    IF c.transport = "stdio"
    THEN IF c.command = NoValue THEN "ValidationError" ELSE "ok"
    ELSE IF c.transport \in {"http", "websocket"}
    THEN IF c.url = NoValue THEN "ValidationError" ELSE "ok"
    ELSE "ValidationError"

\* register that does not look for the name among the registered ones
RegisterOutcomeOverwrite(name, cfg) ==
    IF name = "" THEN "ValidationError" ELSE ValidateConfig(cfg)

\* register into a registry that holds names: "ok", or the class of the
\* error it throws
RegisterOutcomeAmong(names, name, cfg) ==
    IF name = "" THEN "ValidationError"
    ELSE IF name \in names THEN "ConfigurationError"
    ELSE ValidateConfig(cfg)

\* register: "ok", or the class of the error it throws
RegisterOutcome(name, cfg) == RegisterOutcomeAmong(regServers, name, cfg)

\* { ...config, name } copied without the default transport
StoredAsGiven(name, cfg) ==
    [name |-> name, transport |-> cfg.transport, command |-> cfg.command,
     url |-> cfg.url]

\* { ...config, name } of the config validateConfig has defaulted
Stored(name, cfg) ==
    LET c == Defaulted(cfg) IN
    [name |-> name, transport |-> c.transport, command |-> c.command,
     url |-> c.url]

\* emit('server-registered', name, config)
RegisteredEvent(name, cfg) == <<"server-registered", name, Defaulted(cfg)>>

\* no config: what the history holds for calls that take none
NoArg == [transport |-> NoValue, command |-> NoValue, url |-> NoValue]

\* no data: what the history holds for calls other than import
NoData == [n \in {} |-> NoArg]

NoRegRes == [op |-> "none", name |-> "none", cfg |-> NoArg, res |-> "none",
             events |-> {}, data |-> NoData]

\* the config the servers of the manager are registered with
NodeConfig == [transport |-> "stdio", command |-> "node", url |-> NoValue]

\* register(name, cfg)
Register(name, cfg) ==
    LET res == RegisterOutcome(name, cfg) IN
    /\ IF res = "ok"
       THEN /\ regServers' = regServers \cup {name}
            /\ regConfig' = [regConfig EXCEPT ![name] = Stored(name, cfg)]
            /\ regRes' = [NoRegRes EXCEPT !.op = "register", !.name = name,
                             !.cfg = cfg, !.res = res,
                             !.events = {RegisteredEvent(name, cfg)}]
       ELSE /\ regRes' = [NoRegRes EXCEPT !.op = "register", !.name = name,
                             !.cfg = cfg, !.res = res]
            /\ UNCHANGED <<regServers, regConfig>>
    /\ UNCHANGED <<mgrFlags, connections, st, tasks, regConn, lastRes,
                   tickHist>>
    /\ UNCHANGED aggVars

\* an unregister that leaves the connection record of the name
UnregisterConnKept(name) == regConn

\* unregister: this.connections.delete(name)
UnregisterConn(name) == [regConn EXCEPT ![name] = NoState]

\* unregister(name)
Unregister(name) ==
    /\ IF name \in regServers
       THEN /\ regServers' = regServers \ {name}
            /\ regConfig' = [regConfig EXCEPT ![name] = NoConfig]
            /\ regConn' = UnregisterConn(name)
            /\ regRes' = [NoRegRes EXCEPT !.op = "unregister",
                             !.name = name, !.res = "true",
                             !.events = {<<"server-unregistered", name>>}]
       ELSE /\ regRes' = [NoRegRes EXCEPT !.op = "unregister",
                             !.name = name, !.res = "false"]
            /\ UNCHANGED <<regServers, regConfig, regConn>>
    /\ UNCHANGED <<mgrFlags, connections, st, tasks, lastRes, tickHist>>
    /\ UNCHANGED aggVars

\* a clear() that leaves the connection records
ClearConnKept == regConn

\* clear(): this.connections.clear()
ClearConn == [S \in Servers |-> NoState]

\* clear()
Clear ==
    /\ regServers' = {}
    /\ regConfig' = [S \in Servers |-> NoConfig]
    /\ regConn' = ClearConn
    /\ regRes' = [NoRegRes EXCEPT !.op = "clear", !.res = "ok",
                     !.events = {<<"registry-cleared">>}]
    /\ UNCHANGED <<mgrFlags, connections, st, tasks, lastRes, tickHist>>
    /\ UNCHANGED aggVars

\* setConnection(name, connection); k: the state whose connection object
\* is stored
SetConnection(name, k) ==
    /\ IF name \in regServers
       THEN /\ regConn' = [regConn EXCEPT ![name] = k]
            /\ regRes' = [NoRegRes EXCEPT !.op = "setConnection",
                             !.name = name, !.res = "ok",
                             !.events = {<<"connection-updated", name, k>>}]
       ELSE /\ regRes' = [NoRegRes EXCEPT !.op = "setConnection",
                             !.name = name, !.res = "ConfigurationError"]
            /\ UNCHANGED regConn
    /\ UNCHANGED <<mgrFlags, connections, st, tasks, regServers, regConfig,
                   lastRes, tickHist>>
    /\ UNCHANGED aggVars

\* export(): a copy of every stored config under its name
Export == [n \in regServers |-> regConfig[n]]

\* an import that registers nothing when an entry of the batch is refused
ImportIntoAllOrNothing(names, data) ==
    IF \A n \in DOMAIN data : RegisterOutcomeAmong(names, n, data[n]) = "ok"
    THEN DOMAIN data ELSE {}

\* import into a registry that holds names: the entries register accepts;
\* the keys of data are distinct, so no entry changes the outcome of another
ImportInto(names, data) ==
    {n \in DOMAIN data : RegisterOutcomeAmong(names, n, data[n]) = "ok"}

\* import(data): register(name, config) for every entry, errors logged and
\* skipped.  The keys of data are distinct, so no entry changes the outcome
\* of another.
Import(data) ==
    LET ok == ImportInto(regServers, data) IN
    /\ regServers' = regServers \cup ok
    /\ regConfig' = [S \in Servers |->
                       IF S \in ok THEN Stored(S, data[S]) ELSE regConfig[S]]
    /\ regRes' = [NoRegRes EXCEPT !.op = "import", !.res = "ok",
                     !.events = {RegisteredEvent(n, data[n]) : n \in ok},
                     !.data = data]
    /\ UNCHANGED <<mgrFlags, connections, st, tasks, regConn, lastRes,
                   tickHist>>
    /\ UNCHANGED aggVars

\* ------------------------------------------------------------ manager

InitCM ==
    /\ mInitialized = FALSE
    /\ mClosing = FALSE
    /\ timerOn = FALSE
    /\ connections = [S \in Servers |-> NoState]
    /\ st = <<>>
    /\ tasks = [t \in Tasks |-> IdleTask]
    /\ regServers = Servers
    /\ regConn = [S \in Servers |-> NoState]
    /\ regConfig = [S \in Servers |-> Stored(S, NodeConfig)]
    /\ regRes = NoRegRes
    /\ lastRes = [op |-> "none", server |-> "none", res |-> "none",
                  conn |-> NoState, waited |-> FALSE, cached |-> FALSE]
    /\ ticks = 0
    /\ lastTick = [healthy |-> {}, unhealthy |-> {}]

\* initialize(); hc: options.healthCheckInterval > 0, so the timer is started
MgrInitialize(hc) ==
    /\ ~mInitialized
    /\ mInitialized' = TRUE
    /\ timerOn' = hc
    /\ UNCHANGED <<mClosing, connections, st, tasks, registry, lastRes,
                   tickHist>>
    /\ UNCHANGED aggVars

\* createConnection from `const state = ...` to `await state.initPromise`:
\* a new state, with the retry count rc of the state it replaces, is stored
\* and initializeConnection is started
CreateConnectionNew(t, op, S, w, rc) ==
    /\ Len(st) < MaxStates
    /\ st' = Append(st, NewState(S, rc, op))
    /\ connections' = [connections EXCEPT ![S] = Len(st) + 1]
    /\ tasks' = [tasks EXCEPT ![t] = [op |-> op, server |-> S,
                    pc |-> "awaitOwn", sid |-> Len(st) + 1, waited |-> w]]
    /\ UNCHANGED lastRes

RetryCountOf(k) == IF k # NoState THEN st[k].retryCount ELSE 0

\* createConnection without the check for an attempt in flight
CreateConnectionNoDedup(t, op, S, w) ==
    CreateConnectionNew(t, op, S, w, RetryCountOf(connections[S]))

\* createConnection up to its first await: join the attempt in flight, or
\* store a new state and start initializeConnection
CreateConnection(t, op, S, w) ==
    LET k == connections[S] IN
    IF k # NoState /\ st[k].initPromise
    THEN /\ tasks' = [tasks EXCEPT ![t] = [op |-> op, server |-> S,
                    pc |-> "awaitExisting", sid |-> k, waited |-> TRUE]]
         /\ UNCHANGED <<st, connections, lastRes>>
    ELSE CreateConnectionNew(t, op, S, w, RetryCountOf(k))

\* a registry in which every name has a config
ConfigMissingNever(S) == FALSE

\* getConnection: registry.get(serverName) is undefined
ConfigMissing(S) == S \notin regServers

\* a getConnection that asks the registry before it looks at its map
GetConnectionRegistryFirst(t, op, S) ==
    LET k == connections[S] IN
    IF ~mInitialized
    THEN /\ Returned(t, op, S, "Error", NoState, FALSE)
         /\ UNCHANGED <<st, connections>>
    ELSE IF ConfigMissing(S)
    THEN /\ Returned(t, op, S, "ConfigurationError", NoState, FALSE)
         /\ UNCHANGED <<st, connections>>
    ELSE IF k # NoState /\ IsConnectionHealthy(st[k])
    THEN /\ Returned(t, op, S, "conn", k, FALSE)
         /\ UNCHANGED <<st, connections>>
    ELSE CreateConnection(t, op, S, FALSE)

\* getConnection up to its first await
GetConnection(t, op, S) ==
    LET k == connections[S] IN
    IF ~mInitialized
    THEN /\ Returned(t, op, S, "Error", NoState, FALSE)
         /\ UNCHANGED <<st, connections>>
    ELSE IF k # NoState /\ IsConnectionHealthy(st[k])
    THEN /\ Returned(t, op, S, "conn", k, FALSE)
         /\ UNCHANGED <<st, connections>>
    ELSE IF ConfigMissing(S)
    THEN /\ Returned(t, op, S, "ConfigurationError", NoState, FALSE)
         /\ UNCHANGED <<st, connections>>
    ELSE CreateConnection(t, op, S, FALSE)

\* a caller invokes getConnection(S)
GetConnectionCall(S) ==
    /\ IdleTasks # {}
    /\ GetConnection(FirstIdle, "get", S)
    /\ UNCHANGED <<mgrFlags, registry, tickHist>>
    /\ UNCHANGED aggVars

\* new ConnectionError(errorMessage, name)
ConnectionError(name) == [class |-> "ConnectionError", serverName |-> name]

\* a catch block that leaves the retry count as it is
ConnectFailedUncounted(s, e) ==
    [s EXCEPT !.error = TRUE, !.connected = FALSE,
              !.phase = "fail", !.cause = e,
              !.thrown = ConnectionError(s.server)]

\* the catch block of initializeConnection, which has caught e
ConnectFailed(s, e) ==
    [s EXCEPT !.error = TRUE, !.retryCount = @ + 1, !.connected = FALSE,
              !.phase = "fail", !.cause = e,
              !.thrown = ConnectionError(s.server)]

\* initializeConnection after `await createTransport(config)`: the transport
\* is stored and client.connect(transport) is raced against the timer; or
\* createTransport threw (new URL(config.url))
TransportCreated(k, ok) ==
    /\ k \in StateIds
    /\ st[k].phase = "transport"
    /\ st' = IF ok
             THEN [st EXCEPT ![k].transport = TRUE, ![k].phase = "connecting"]
             ELSE [st EXCEPT ![k] = ConnectFailed(@, PlainError)]
    /\ UNCHANGED <<mgrFlags, connections, tasks, registry, lastRes, tickHist>>
    /\ UNCHANGED aggVars

\* client.connect resolved before the timer: the success path, in which
\* registry.setConnection throws for an unregistered name
ConnectOk(k) ==
    /\ ~MicroPending
    /\ k \in StateIds
    /\ st[k].phase = "connecting"
    /\ LET S == st[k].server
           good == [st[k] EXCEPT !.session = TRUE, !.connected = TRUE,
                                 !.error = FALSE, !.retryCount = 0,
                                 !.cause = NoError, !.established = TRUE]
       IN IF S \in regServers
          THEN /\ st' = [st EXCEPT ![k] = [good EXCEPT !.phase = "ok"]]
               /\ regConn' = [regConn EXCEPT ![S] = k]
          ELSE /\ st' = [st EXCEPT ![k] = ConnectFailed(good, ConfigError)]
               /\ UNCHANGED regConn
    /\ UNCHANGED <<mgrFlags, connections, tasks, regServers, regConfig,
                   regRes, lastRes, tickHist>>
    /\ UNCHANGED aggVars

\* client.connect rejected before the timer
ConnectFail(k) ==
    /\ ~MicroPending
    /\ k \in StateIds
    /\ st[k].phase = "connecting"
    /\ st' = [st EXCEPT ![k] = ConnectFailed(@, PlainError)]
    /\ UNCHANGED <<mgrFlags, connections, tasks, registry, lastRes, tickHist>>
    /\ UNCHANGED aggVars

\* a timer that rejects with a plain Error
TimerErrorPlain(ms) == PlainError

\* withTimeout: what its timer rejects with
TimerError(ms) == TimeoutError(ms)

\* a connect that is awaited without a timer
ConnectTimeoutNever(k) == FALSE

\* the timer of withTimeout fired before client.connect settled: the race
\* rejects, and client.connect goes on
ConnectTimeout(k) ==
    /\ ~MicroPending
    /\ k \in StateIds
    /\ st[k].phase = "connecting"
    /\ st' = [st EXCEPT ![k] = [ConnectFailed(@, TimerError(ConnectionTimeout))
                                  EXCEPT !.late = "pending"]]
    /\ UNCHANGED <<mgrFlags, connections, tasks, registry, lastRes, tickHist>>
    /\ UNCHANGED aggVars

\* client.connect of an attempt that timed out settles: nothing is left to
\* react to it (Promise.race has settled), a connected client stays open
LateConnect(k, ok) ==
    /\ ~MicroPending
    /\ k \in StateIds
    /\ st[k].late = "pending"
    /\ st' = [st EXCEPT ![k].late = IF ok THEN "open" ELSE "rejected"]
    /\ UNCHANGED <<mgrFlags, connections, tasks, registry, lastRes, tickHist>>
    /\ UNCHANGED aggVars

\* the eviction test of createConnection's catch block, with > for >=
EvictOnFailureOffByOne(s) == s.retryCount > MaxRetries

\* createConnection's catch block: evict once the retry count reaches the
\* maximum
EvictOnFailure(s) == s.retryCount >= MaxRetries

\* createConnection after `await state.initPromise` of the call that started
\* the attempt: return, or evict and rethrow; finally delete initPromise
StarterContinue(t) ==
    LET k == tasks[t].sid
        S == tasks[t].server IN
    /\ tasks[t].pc = "awaitOwn"
    /\ Settled(st[k])
    /\ st' = [st EXCEPT ![k].initPromise = FALSE]
    /\ IF st[k].phase = "ok"
       THEN /\ Returned(t, tasks[t].op, S, "conn", k, tasks[t].waited)
            /\ UNCHANGED connections
       ELSE /\ Returned(t, tasks[t].op, S, st[k].thrown.class, NoState,
                        tasks[t].waited)
            /\ connections' = IF EvictOnFailure(st[k])
                              THEN [connections EXCEPT ![S] = NoState]
                              ELSE connections
    /\ UNCHANGED <<mgrFlags, registry, tickHist>>
    /\ UNCHANGED aggVars

\* createConnection after `await existingState.initPromise` of a call that
\* joined an attempt in flight; its reaction runs after the starter's
WaiterContinue(t) ==
    LET k == tasks[t].sid
        S == tasks[t].server IN
    /\ tasks[t].pc = "awaitExisting"
    /\ Settled(st[k])
    /\ ~st[k].initPromise
    /\ IF st[k].phase = "fail"
       THEN /\ Returned(t, tasks[t].op, S, st[k].thrown.class, NoState, TRUE)
            /\ UNCHANGED <<st, connections>>
       ELSE IF IsConnectionHealthy(st[k])
       THEN /\ Returned(t, tasks[t].op, S, "conn", k, TRUE)
            /\ UNCHANGED <<st, connections>>
       ELSE CreateConnectionNew(t, tasks[t].op, S, TRUE, st[k].retryCount)
    /\ UNCHANGED <<mgrFlags, registry, tickHist>>
    /\ UNCHANGED aggVars

\* ---------------------------------------------- closeConnection, reconnect

\* where closeConnection first suspends for state k: at client.close(), at
\* transport.close(), or not at all (the finally block runs at once)
CloseFirstStep(k) ==
    IF k = NoState THEN "untracked"
    ELSE IF st[k].connected THEN "closeClient"
    ELSE IF st[k].transport THEN "closeTransport"
    ELSE "finally"

\* the 'connection-closed' event is dropped
EmitClosedNever(s) == s

\* the finally block of closeConnection: emit('connection-closed', name)
EmitClosed(s) == [s EXCEPT !.emitted = @ + 1]

\* closeConnection up to its first await on state s: close() of the client
\* or of the transport is called, or the finally block has run
CloseStarted(s, step) ==
    IF step = "closeClient" THEN [s EXCEPT !.clientClosed = TRUE]
    ELSE IF step = "closeTransport" THEN [s EXCEPT !.transportClosed = TRUE]
    ELSE EmitClosed(s)

\* closeConnection(S) up to its first await, for the server S of each task
\* f[S], each called by reconnect(S), which awaits it
StartReconnect(ss, f) ==
    /\ tasks' = [t \in Tasks |->
         IF \E S \in ss : f[S] = t
         THEN LET S == CHOOSE S \in ss : f[S] = t
                  k == connections[S]
                  step == CloseFirstStep(k) IN
              [op |-> "reconnect", server |-> S,
               pc |-> IF step \in {"untracked", "finally"}
                      THEN "recGet" ELSE step,
               sid |-> k, waited |-> FALSE]
         ELSE tasks[t]]
    /\ st' = [k \in StateIds |->
         IF \E S \in ss : connections[S] = k
         THEN CloseStarted(st[k], CloseFirstStep(k))
         ELSE st[k]]
    /\ connections' = [S \in Servers |->
         IF S \in ss /\ CloseFirstStep(connections[S]) = "finally"
         THEN NoState ELSE connections[S]]

\* the finally block of closeConnection: the entry of the NAME is deleted
\* and the event emitted; reconnect then goes on to getConnection, a
\* caller's closeConnection returns, one called by close() has resolved
CloseFinally(t) ==
    LET S == tasks[t].server IN
    /\ connections' = [connections EXCEPT ![S] = NoState]
    /\ st' = [st EXCEPT ![tasks[t].sid] = EmitClosed(@)]
    /\ IF tasks[t].op = "reconnect"
       THEN /\ tasks' = [tasks EXCEPT ![t].pc = "recGet"]
            /\ UNCHANGED lastRes
       ELSE IF tasks[t].op = "close"
       THEN Returned(t, "close", S, "ok", NoState, FALSE)
       ELSE /\ tasks' = [tasks EXCEPT ![t] = IdleTask]
            /\ UNCHANGED lastRes

\* client.close() settled: resolved (ok), then transport.close() is called if
\* the state has a transport; or rejected, which skips to the catch block
CloseClientDone(t, ok) ==
    LET k == tasks[t].sid IN
    /\ ~MicroPending
    /\ tasks[t].pc = "closeClient"
    /\ IF ok /\ st[k].transport
       THEN /\ st' = [st EXCEPT ![k].transportClosed = TRUE]
            /\ tasks' = [tasks EXCEPT ![t].pc = "closeTransport"]
            /\ UNCHANGED <<connections, lastRes>>
       ELSE CloseFinally(t)
    /\ UNCHANGED <<mgrFlags, registry, tickHist>>
    /\ UNCHANGED aggVars

\* transport.close() settled (resolved or rejected)
CloseTransportDone(t) ==
    /\ ~MicroPending
    /\ tasks[t].pc = "closeTransport"
    /\ CloseFinally(t)
    /\ UNCHANGED <<mgrFlags, registry, tickHist>>
    /\ UNCHANGED aggVars

\* a caller invokes closeConnection(S): up to its first await, or to its
\* end when nothing is awaited
CloseConnectionCall(S) ==
    LET k == connections[S]
        step == CloseFirstStep(k)
        t == FirstIdle IN
    /\ IdleTasks # {}
    /\ IF step = "untracked"
       THEN /\ Returned(t, "close", S, "ok", NoState, FALSE)
            /\ UNCHANGED <<st, connections>>
       ELSE /\ st' = [st EXCEPT ![k] = CloseStarted(@, step)]
            /\ IF step = "finally"
               THEN /\ connections' = [connections EXCEPT ![S] = NoState]
                    /\ Returned(t, "close", S, "ok", NoState, FALSE)
               ELSE /\ tasks' = [tasks EXCEPT ![t] =
                                   [op |-> "close", server |-> S, pc |-> step,
                                    sid |-> k, waited |-> FALSE]]
                    /\ UNCHANGED <<connections, lastRes>>
    /\ UNCHANGED <<mgrFlags, registry, tickHist>>
    /\ UNCHANGED aggVars

\* what close() of the manager returns
ClosedAll == [op |-> "closeAll", server |-> "none", res |-> "ok",
              conn |-> NoState, waited |-> FALSE, cached |-> FALSE]

\* the servers whose closeConnection, called by close(), suspends
ClosesAwaited ==
    {S \in Tracked :
        CloseFirstStep(connections[S]) \in {"closeClient", "closeTransport"}}

\* a close() that does not look at the closing flag
CloseGuardNever == FALSE

\* close(): `if (this.closing) return`
CloseGuard == mClosing

\* a caller invokes close() of the manager: up to
\* `await Promise.all(closePromises)`, closeConnection of every tracked
\* server having run up to its first await
MgrCloseCall ==
    /\ IF CloseGuard
       THEN /\ lastRes' = ClosedAll
            /\ UNCHANGED <<mgrFlags, connections, st, tasks>>
       ELSE LET ss == ClosesAwaited IN
            /\ Cardinality(IdleTasks) >= Cardinality(ss)
            /\ LET f == CHOOSE g \in [ss -> IdleTasks] :
                           \A a, b \in ss : a # b => g[a] # g[b]
               IN tasks' = [t \in Tasks |->
                    IF \E S \in ss : f[S] = t
                    THEN LET S == CHOOSE S \in ss : f[S] = t IN
                         [op |-> "closeAll", server |-> S,
                          pc |-> CloseFirstStep(connections[S]),
                          sid |-> connections[S], waited |-> FALSE]
                    ELSE tasks[t]]
            /\ st' = [k \in StateIds |->
                 IF \E S \in Tracked : connections[S] = k
                 THEN CloseStarted(st[k], CloseFirstStep(k))
                 ELSE st[k]]
            /\ connections' = [S \in Servers |->
                 IF S \in ClosesAwaited THEN connections[S] ELSE NoState]
            /\ mClosing' = TRUE
            /\ timerOn' = FALSE
            /\ UNCHANGED <<mInitialized, lastRes>>
    /\ UNCHANGED <<registry, tickHist>>
    /\ UNCHANGED aggVars

\* close() invoked from a timer or I/O callback of the caller: no
\* continuation is queued when it runs
MgrCloseCallIdle == ~MicroPending /\ MgrCloseCall

\* close() after `await Promise.all(closePromises)`
MgrCloseEnd ==
    /\ mClosing
    /\ \A t \in Tasks : tasks[t].op # "closeAll"
    /\ connections' = [S \in Servers |-> NoState]
    /\ mInitialized' = FALSE
    /\ mClosing' = FALSE
    /\ lastRes' = ClosedAll
    /\ UNCHANGED <<timerOn, st, tasks, registry, tickHist>>
    /\ UNCHANGED aggVars

\* reconnect after `await this.closeConnection(serverName)`
ReconnectGet(t) ==
    /\ tasks[t].pc = "recGet"
    /\ GetConnection(t, "reconnect", tasks[t].server)
    /\ UNCHANGED <<mgrFlags, registry, tickHist>>
    /\ UNCHANGED aggVars

\* ------------------------------------------------------------ health check


\* a health check that reconnects every tracked server
HealthCheckTargetsAll == Tracked

\* performHealthCheck: the servers whose reconnect it invokes
HealthCheckTargets == Tracked \ HealthyNow

\* the timer fires: performHealthCheck up to `await Promise.all(checks)`
Tick ==
    /\ ~MicroPending
    /\ timerOn
    /\ ticks' = 1 - ticks
    /\ lastTick' = [healthy |-> HealthyNow, unhealthy |-> Tracked \ HealthyNow]
    /\ IF mClosing
       THEN UNCHANGED <<tasks, st, connections>>
       ELSE LET ss == HealthCheckTargets IN
            /\ Cardinality(IdleTasks) >= Cardinality(ss)
            /\ LET f == CHOOSE g \in [ss -> IdleTasks] :
                           \A a, b \in ss : a # b => g[a] # g[b]
               IN StartReconnect(ss, f)
    /\ UNCHANGED <<mgrFlags, registry, lastRes>>
    /\ UNCHANGED aggVars

\* ------------------------------------------------------------ aggregator

\* initialize() calls made on one Aggregator
MaxInits == 2

Aggregators == {"a1", "a2"}
NoManager == 0
NAMESPACE_SEPARATOR == "_"

\* capability classes, in the order loadServerCapabilities loads them
Kinds == <<"tool", "prompt", "resource">>
KindSet == {Kinds[i] : i \in 1..Len(Kinds)}
\* original names (tool names, prompt names, resource URIs) servers report
Names == {"c", "b_c"}
\* argument values of callTool / getPrompt
ArgValues == {"x", "y"}

\* createNamespacedName that drops the server prefix
CreateNamespacedNameBare(S, T) == T

CreateNamespacedName(S, T) == S \o NAMESPACE_SEPARATOR \o T

\* the Tool / Prompt / Resource object server S reports under name T
Item(S, K, T) ==
    [name |-> T, description |-> <<"description", S, K, T>>,
     inputSchema |-> <<"schema", S, K, T>>]

\* the NamespacedTool / NamespacedPrompt / NamespacedResource built for it
NamespacedItem(S, K, T) ==
    [server_name |-> S, original_name |-> T,
     namespaced_name |-> CreateNamespacedName(S, T), item |-> Item(S, K, T)]

NoEntry ==
    [server_name |-> "none", original_name |-> "none",
     namespaced_name |-> "none", item |-> Item("none", "none", "none")]

EmptyMap == [k \in {} |-> NoEntry]
EmptyMaps == [K \in KindSet |-> EmptyMap]

\* an update that stops after the first reported item
UpdateMapsPartial(m, S, K) ==
    IF catalog[S] = {} THEN m
    ELSE LET T == CHOOSE T \in catalog[S] : TRUE
             k == CreateNamespacedName(S, T) IN
         [j \in DOMAIN m \cup {k} |->
             IF j = k THEN NamespacedItem(S, K, T) ELSE m[j]]

\* the loop of updateToolMaps / updatePromptMaps / updateResourceMaps:
\* namespacedMap.set(namespacedName, entry) for every reported item
UpdateMaps(m, S, K) ==
    LET new == {CreateNamespacedName(S, T) : T \in catalog[S]} IN
    [k \in DOMAIN m \cup new |->
        IF k \in new
        THEN NamespacedItem(S, K,
                 CHOOSE T \in catalog[S] : CreateNamespacedName(S, T) = k)
        ELSE m[k]]

\* serverToToolMap.set(serverName, namespacedTools), and the same for
\* prompts and resources: the entries built for what S reported
UpdateServerMap(m, S, K) ==
    [R \in DOMAIN m \cup {S} |->
        IF R = S THEN {NamespacedItem(S, K, T) : T \in catalog[S]}
        ELSE m[R]]

\* listTools(): name, description and inputSchema of every map value
ListTools(a) ==
    {[name |-> nsMap[a]["tool"][k].namespaced_name,
      description |-> nsMap[a]["tool"][k].item.description,
      inputSchema |-> nsMap[a]["tool"][k].item.inputSchema] :
        k \in DOMAIN nsMap[a]["tool"]}

NoEff == [req |-> {}, eph |-> {}, invoke |-> {}, closed |-> {},
          res |-> "none", by |-> "none", tag |-> "none"]

\* client, transport: the ephemeral client and transport of the call
\* ("none", "open", or "closed" once its close() has been called); primary:
\* how the operation run on the client ended; tdErr: a close() has thrown
IdleLoad == [pc |-> "idle", kind |-> 1, acc |-> FALSE, client |-> "none",
             transport |-> "none", primary |-> "none", tdErr |-> FALSE]
DoneLoad == [IdleLoad EXCEPT !.pc = "done"]
FailedLoad == [IdleLoad EXCEPT !.pc = "fail"]

IdleCall == [pc |-> "idle", op |-> "none", agg |-> "none", kind |-> "none",
             id |-> "none", args |-> "none", entry |-> NoEntry, acc |-> FALSE,
             client |-> "none", transport |-> "none", primary |-> "none",
             tdErr |-> FALSE, sent |-> 0]

\* a finally block whose close() errors replace the outcome
SurfacedTeardown(primary, tdErr) == IF tdErr THEN "Error" ELSE primary

\* withEphemeralClient: what its caller gets after the finally block, in
\* which every error of a close() is caught and dropped
Surfaced(primary, tdErr) == primary

\* withEphemeralClient enters its finally block with the outcome res:
\* client.close() is called
EnterFinally(r, res) ==
    [r EXCEPT !.pc = "closeClient", !.client = "closed", !.primary = res]

\* ... client.close() has settled (ok: resolved): transport.close() is
\* called if there is a transport, else the block is done
AfterClientClose(r, ok) ==
    IF r.transport = "open"
    THEN [r EXCEPT !.pc = "closeTransport", !.transport = "closed",
                   !.tdErr = ~ok]
    ELSE [r EXCEPT !.pc = "closed", !.tdErr = ~ok]

\* ... transport.close() has settled
AfterTransportClose(r, ok) ==
    [r EXCEPT !.pc = "closed", !.tdErr = @ \/ ~ok]

LoadsSettled(a) ==
    \A S \in Servers : load[a][S].pc \in {"idle", "done", "fail"}
LoadRejected(a) == \E S \in serverNames[a] : load[a][S].pc = "fail"
AllLoaded(a) == \A S \in serverNames[a] : load[a][S].pc = "done"

\* Promise.all(loadPromises) has settled
LoadsResolved(a) == LoadRejected(a) \/ AllLoaded(a)

\* a request manager m accepts: getConnection throws at once unless the
\* manager is initialized
Accepts(m) == m # NoManager /\ mgrs[m].initialized

\* the session method that uses an item of a capability class
CallMethod(K) ==
    IF K = "tool" THEN "callTool"
    ELSE IF K = "prompt" THEN "getPrompt" ELSE "readResource"

Invocation(S, method, name, args) ==
    [server |-> S, method |-> method, name |-> name, args |-> args]

\* a continuation of a settled promise of an Aggregator is queued
AggMicroPending ==
    \/ \E a \in Aggregators :
         \/ life[a].pc \in {"initLock", "initMgr", "initReady", "closeLock",
                            "closeTail"}
         \/ life[a].pc = "loading" /\ LoadsResolved(a)
         \/ \E S \in Servers : load[a][S].pc \in {"upd", "transport"}
    \/ call.pc \in {"ensured", "transport"}

InitAggWith(cat, per, names) ==
    /\ persist = per
    /\ serverNames = names
    /\ initialized = [a \in Aggregators |-> FALSE]
    /\ pcm = [a \in Aggregators |-> NoManager]
    /\ nsMap = [a \in Aggregators |-> EmptyMaps]
    /\ srvMap = [a \in Aggregators |-> EmptyMaps]
    /\ life = [a \in Aggregators |-> [pc |-> "idle", mgr |-> NoManager,
                                      inits |-> 0, holds |-> FALSE]]
    /\ load = [a \in Aggregators |-> [S \in Servers |-> IdleLoad]]
    /\ refCount = 0
    /\ ctxMgr = NoManager
    /\ mgrs = <<>>
    /\ catalog = cat
    /\ call = IdleCall
    /\ eff = NoEff

\* loadServers up to its await: loadServerCapabilities of every configured
\* server runs up to its first await, where the connection is requested from
\* the manager or, without persistence, an ephemeral client is created
LoadServers(a) ==
    /\ load' = [load EXCEPT ![a] = [S \in Servers |->
                  IF S \notin serverNames[a] THEN IdleLoad
                  ELSE IF persist[a]
                  THEN [IdleLoad EXCEPT !.pc = "conn",
                                        !.acc = Accepts(pcm[a])]
                  ELSE IF S \in regServers
                  THEN [IdleLoad EXCEPT !.pc = "transport",
                                        !.client = "open"]
                  ELSE FailedLoad]]
    /\ eff' = [NoEff EXCEPT
                 !.req = IF persist[a]
                         THEN {<<pcm[a], S>> : S \in serverNames[a]} ELSE {},
                 !.eph = IF persist[a] THEN {}
                         ELSE serverNames[a] \cap regServers,
                 !.by = a]

\* an initialize() that does not look at the flag
AlreadyInitializedNever(a) == FALSE

\* initialize(): `if (this.initialized && !force) return`, force = false
AlreadyInitialized(a) == initialized[a]

\* initialize(), force = false, up to its first await
InitializeCall(a) ==
    /\ life[a].pc = "idle"
    /\ life[a].inits < MaxInits
    /\ LoadsSettled(a)
    /\ IF AlreadyInitialized(a)
       THEN /\ life' = [life EXCEPT ![a].inits = @ + 1]
            /\ eff' = [NoEff EXCEPT !.res = "already", !.by = a]
            /\ UNCHANGED load
       ELSE IF persist[a]
       THEN /\ life' = [life EXCEPT ![a].inits = @ + 1, ![a].pc = "initLock"]
            /\ eff' = NoEff
            /\ UNCHANGED load
       ELSE /\ life' = [life EXCEPT ![a].inits = @ + 1, ![a].pc = "loading"]
            /\ LoadServers(a)
    /\ UNCHANGED <<config, initialized, pcm, maps, refCount, ctxMgr, mgrs,
                   call>>
    /\ UNCHANGED cmVars

\* initialize(true) up to its first await: the flag is not looked at
InitializeForce(a) ==
    /\ life[a].pc = "idle"
    /\ life[a].inits < MaxInits
    /\ LoadsSettled(a)
    /\ IF persist[a]
       THEN /\ life' = [life EXCEPT ![a].inits = @ + 1, ![a].pc = "initLock"]
            /\ eff' = NoEff
            /\ UNCHANGED load
       ELSE /\ life' = [life EXCEPT ![a].inits = @ + 1, ![a].pc = "loading"]
            /\ LoadServers(a)
    /\ UNCHANGED <<config, initialized, pcm, maps, refCount, ctxMgr, mgrs,
                   call>>
    /\ UNCHANGED cmVars

\* server S stops reporting the name T
ServerDrops(S, T) ==
    /\ T \in catalog[S]
    /\ catalog' = [catalog EXCEPT ![S] = @ \ {T}]
    /\ eff' = NoEff
    /\ UNCHANGED <<persist, serverNames, initialized, pcm, maps, life, load,
                   refCount, ctxMgr, mgrs, call>>
    /\ UNCHANGED cmVars

\* initializePersistentConnections after `await lock`: count the reference,
\* take the manager of the context or construct one and call its initialize()
InitAfterLock(a) ==
    /\ life[a].pc = "initLock"
    /\ refCount' = refCount + 1
    /\ IF ctxMgr # NoManager
       THEN /\ pcm' = [pcm EXCEPT ![a] = ctxMgr]
            /\ life' = [life EXCEPT ![a].pc = "initReady",
                                    ![a].holds = TRUE]
            /\ UNCHANGED mgrs
       ELSE /\ mgrs' = Append(mgrs, [initialized |-> TRUE, closing |-> FALSE])
            /\ life' = [life EXCEPT ![a].pc = "initMgr",
                                    ![a].mgr = Len(mgrs) + 1,
                                    ![a].holds = TRUE]
            /\ UNCHANGED pcm
    /\ eff' = NoEff
    /\ UNCHANGED <<config, initialized, maps, load, ctxMgr, call>>
    /\ UNCHANGED cmVars

\* ... after `await connectionManager.initialize()`
InitAfterMgrInit(a) ==
    /\ life[a].pc = "initMgr"
    /\ ctxMgr' = life[a].mgr
    /\ pcm' = [pcm EXCEPT ![a] = life[a].mgr]
    /\ life' = [life EXCEPT ![a].pc = "initReady", ![a].mgr = NoManager]
    /\ eff' = NoEff
    /\ UNCHANGED <<config, initialized, maps, load, refCount, mgrs, call>>
    /\ UNCHANGED cmVars

\* initialize() resumes after initializePersistentConnections
InitLoadServers(a) ==
    /\ life[a].pc = "initReady"
    /\ life' = [life EXCEPT ![a].pc = "loading"]
    /\ LoadServers(a)
    /\ UNCHANGED <<config, initialized, pcm, maps, refCount, ctxMgr, mgrs,
                   call>>
    /\ UNCHANGED cmVars

\* withEphemeralClient after `await this.createTransport(config)`, which
\* returned the transport or threw (new URL(config.url)): client.connect
\* is called, or the finally block is entered
LoadTransport(a, S, ok) ==
    /\ load[a][S].pc = "transport"
    /\ load' = [load EXCEPT ![a][S] =
                  IF ok THEN [@ EXCEPT !.pc = "conn", !.transport = "open"]
                  ELSE EnterFinally(@, "error")]
    /\ eff' = NoEff
    /\ UNCHANGED <<config, initialized, pcm, maps, life, refCount, ctxMgr,
                   mgrs, call>>
    /\ UNCHANGED cmVars

\* loadServerCapabilities: the connection (or the connected ephemeral
\* client) is there and the first list request is sent, or it could not be
\* made
LoadConn(a, S, ok) ==
    /\ load[a][S].pc = "conn"
    /\ IF persist[a] THEN ok => load[a][S].acc ELSE ~AggMicroPending
    /\ load' = [load EXCEPT ![a][S] =
                  IF ok THEN [@ EXCEPT !.pc = "list", !.acc = FALSE]
                  ELSE IF persist[a] THEN FailedLoad
                  ELSE EnterFinally(@, "error")]
    /\ eff' = NoEff
    /\ UNCHANGED <<config, initialized, pcm, maps, life, refCount, ctxMgr,
                   mgrs, call>>
    /\ UNCHANGED cmVars

\* the list request of the current class is answered or fails
LoadList(a, S, ok) ==
    /\ load[a][S].pc = "list"
    /\ ~AggMicroPending
    /\ load' = [load EXCEPT ![a][S] =
                  IF ok THEN [@ EXCEPT !.pc = "upd"]
                  ELSE IF persist[a] THEN FailedLoad
                  ELSE EnterFinally(@, "error")]
    /\ eff' = NoEff
    /\ UNCHANGED <<config, initialized, pcm, maps, life, refCount, ctxMgr,
                   mgrs, call>>
    /\ UNCHANGED cmVars

\* update*Maps after `await lock`, then the list request of the next class
LoadUpdate(a, S) ==
    LET i == load[a][S].kind IN
    /\ load[a][S].pc = "upd"
    /\ nsMap' = [nsMap EXCEPT ![a][Kinds[i]] = UpdateMaps(@, S, Kinds[i])]
    /\ srvMap' = [srvMap EXCEPT ![a][Kinds[i]] =
                    UpdateServerMap(@, S, Kinds[i])]
    /\ load' = [load EXCEPT ![a][S] =
                  IF i < Len(Kinds)
                  THEN [@ EXCEPT !.pc = "list", !.kind = i + 1]
                  ELSE IF persist[a] THEN DoneLoad
                  ELSE EnterFinally(@, "ok")]
    /\ eff' = NoEff
    /\ UNCHANGED <<config, initialized, pcm, life, refCount, ctxMgr, mgrs,
                   call>>
    /\ UNCHANGED cmVars

\* the load of S through an ephemeral client ends as its operation did
LoadEnds(r) ==
    IF Surfaced(r.primary, r.tdErr) = "ok" THEN DoneLoad ELSE FailedLoad

\* the finally block of withEphemeralClient in a load: client.close() has
\* settled
LoadCloseClient(a, S, ok) ==
    /\ load[a][S].pc = "closeClient"
    /\ ~AggMicroPending
    /\ LET r == AfterClientClose(load[a][S], ok) IN
       load' = [load EXCEPT ![a][S] = IF r.pc = "closed" THEN LoadEnds(r)
                                      ELSE r]
    /\ eff' = NoEff
    /\ UNCHANGED <<config, initialized, pcm, maps, life, refCount, ctxMgr,
                   mgrs, call>>
    /\ UNCHANGED cmVars

\* ... transport.close() has settled
LoadCloseTransport(a, S, ok) ==
    /\ load[a][S].pc = "closeTransport"
    /\ ~AggMicroPending
    /\ load' = [load EXCEPT ![a][S] = LoadEnds(AfterTransportClose(@, ok))]
    /\ eff' = NoEff
    /\ UNCHANGED <<config, initialized, pcm, maps, life, refCount, ctxMgr,
                   mgrs, call>>
    /\ UNCHANGED cmVars

\* Promise.all never rejects
InitRejectsNever(a) == FALSE

\* Promise.all(loadPromises) rejects as soon as one load has rejected
InitRejects(a) == LoadRejected(a)

\* initialize() after `await this.loadServers()`
InitSettle(a) ==
    /\ life[a].pc = "loading"
    /\ LoadsResolved(a)
    /\ life' = [life EXCEPT ![a].pc = "idle"]
    /\ IF InitRejects(a)
       THEN /\ eff' = [NoEff EXCEPT !.res = "rejected", !.by = a]
            /\ UNCHANGED initialized
       ELSE /\ initialized' = [initialized EXCEPT ![a] = TRUE]
            /\ eff' = [NoEff EXCEPT !.res = "initialized", !.by = a]
    /\ UNCHANGED <<config, pcm, maps, load, refCount, ctxMgr, mgrs, call>>
    /\ UNCHANGED cmVars

\* close(): the maps are cleared and the flag is reset
CloseEnd(a) ==
    /\ nsMap' = [nsMap EXCEPT ![a] = EmptyMaps]
    /\ srvMap' = [srvMap EXCEPT ![a] = EmptyMaps]
    /\ initialized' = [initialized EXCEPT ![a] = FALSE]
    /\ life' = [life EXCEPT ![a].pc = "idle", ![a].mgr = NoManager]
    /\ eff' = [NoEff EXCEPT !.res = "closed", !.by = a]

\* close() on an open Aggregator, up to its first await
CloseCall(a) ==
    /\ life[a].pc = "idle"
    /\ initialized[a]
    /\ IF persist[a] /\ pcm[a] # NoManager
       THEN /\ life' = [life EXCEPT ![a].pc = "closeLock"]
            /\ eff' = NoEff
            /\ UNCHANGED <<maps, initialized>>
       ELSE CloseEnd(a)
    /\ UNCHANGED <<config, pcm, load, refCount, ctxMgr, mgrs, call>>
    /\ UNCHANGED cmVars

\* close() on an Aggregator that is not initialized (closed before, or its
\* initialize() rejected), up to its first await: close() tests no flag,
\* and persistentConnectionManager is never reset
CloseCallClosed(a) ==
    /\ life[a].pc = "idle"
    /\ ~initialized[a]
    /\ LoadsSettled(a)
    /\ refCount > -MaxInits
    /\ IF persist[a] /\ pcm[a] # NoManager
       THEN /\ life' = [life EXCEPT ![a].pc = "closeLock"]
            /\ eff' = NoEff
            /\ UNCHANGED <<maps, initialized>>
       ELSE CloseEnd(a)
    /\ UNCHANGED <<config, pcm, load, refCount, ctxMgr, mgrs, call>>
    /\ UNCHANGED cmVars

\* the manager is closed when the count has dropped to one
ReleasesLastOffByOne(n) == n <= 1

\* ... when the count of references has dropped to zero
ReleasesLast(n) == n <= 0

\* cleanupPersistentConnections after `await lock`: drop the reference and,
\* at the last one, call close() of the manager
CloseAfterLock(a) ==
    LET m == pcm[a] IN
    /\ life[a].pc = "closeLock"
    /\ refCount' = refCount - 1
    /\ IF ReleasesLast(refCount')
       THEN /\ mgrs' = [mgrs EXCEPT ![m].closing = TRUE]
            /\ life' = [life EXCEPT ![a].pc = "closeMgr",
                           ![a].mgr = IF mgrs[m].closing THEN NoManager ELSE m,
                           ![a].holds = FALSE]
            /\ eff' = [NoEff EXCEPT !.closed = {m}, !.by = a]
       ELSE /\ life' = [life EXCEPT ![a].pc = "closeTail",
                                    ![a].holds = FALSE]
            /\ eff' = NoEff
            /\ UNCHANGED mgrs
    /\ UNCHANGED <<config, initialized, pcm, maps, load, ctxMgr, call>>
    /\ UNCHANGED cmVars

\* close() of manager m after its `await Promise.all(closePromises)`
MgrCloseDone(m) ==
    /\ m \in 1..Len(mgrs)
    /\ mgrs[m].closing
    /\ mgrs' = [mgrs EXCEPT ![m] = [initialized |-> FALSE, closing |-> FALSE]]
    /\ eff' = NoEff
    /\ UNCHANGED <<config, initialized, pcm, maps, life, load, refCount,
                   ctxMgr, call>>
    /\ UNCHANGED cmVars

\* cleanupPersistentConnections after `await manager.close()`
CloseMgrDone(a) ==
    /\ life[a].pc = "closeMgr"
    /\ IF life[a].mgr = NoManager THEN TRUE ELSE ~mgrs[life[a].mgr].closing
    /\ ctxMgr' = NoManager
    /\ life' = [life EXCEPT ![a].pc = "closeTail", ![a].mgr = NoManager]
    /\ eff' = NoEff
    /\ UNCHANGED <<config, initialized, pcm, maps, load, refCount, mgrs,
                   call>>
    /\ UNCHANGED cmVars

\* close() after cleanupPersistentConnections
CloseFinish(a) ==
    /\ life[a].pc = "closeTail"
    /\ CloseEnd(a)
    /\ UNCHANGED <<config, pcm, load, refCount, ctxMgr, mgrs, call>>
    /\ UNCHANGED cmVars

\* the namespaced identifier forwarded to the session
ForwardedNameNamespaced(e) == e.namespaced_name

\* the original identifier forwarded to the session of the owning server
ForwardedName(e) == e.original_name

\* a connection error thrown for an unknown identifier
NotFoundErrorWrapped == "ConnectionError"

\* the error thrown for an identifier that is not a key of the map
NotFoundError == "ValidationError"

CallReturns(res, a) ==
    /\ call' = IdleCall
    /\ eff' = [NoEff EXCEPT !.res = res, !.by = a]

\* a ConnectionError tagged with the identifier the caller used
ErrorTagNamespaced(e) == e.namespaced_name

\* the server argument of the ConnectionError made in the catch block
ErrorTag(e) == e.server_name

\* the catch block of callTool / getPrompt / readResource: whatever was
\* thrown inside the try block leaves as a ConnectionError
CallThrows(e, a) ==
    /\ call' = IdleCall
    /\ eff' = [NoEff EXCEPT !.res = "ConnectionError", !.by = a,
                            !.tag = ErrorTag(e)]

\* an ensureInitialized that lets every call pass
EnsureInitializedAlways(a) == TRUE

\* ensureInitialized: passes (TRUE) or throws Error
EnsureInitialized(a) == initialized[a]

\* callTool / getPrompt / readResource up to `await ensureInitialized()`
CallStart(a, K, id, args) ==
    /\ call.pc = "idle"
    /\ IF EnsureInitialized(a)
       THEN /\ call' = [IdleCall EXCEPT !.pc = "ensured", !.op = "call",
                           !.agg = a, !.kind = K, !.id = id, !.args = args]
            /\ eff' = NoEff
       ELSE CallReturns("Error", a)
    /\ UNCHANGED <<config, initialized, pcm, maps, life, load, refCount,
                   ctxMgr, mgrs>>
    /\ UNCHANGED cmVars

\* listTools / listPrompts / listResources up to `await ensureInitialized()`
ListStart(a, K) ==
    /\ call.pc = "idle"
    /\ IF EnsureInitialized(a)
       THEN /\ call' = [IdleCall EXCEPT !.pc = "ensured", !.op = "list",
                           !.agg = a, !.kind = K]
            /\ eff' = NoEff
       ELSE CallReturns("Error", a)
    /\ UNCHANGED <<config, initialized, pcm, maps, life, load, refCount,
                   ctxMgr, mgrs>>
    /\ UNCHANGED cmVars

\* ... a list call returns the values of the map; a call looks up the
\* namespaced map and, for a known identifier, makes the
\* request of the connection from the manager (getServerConnection) or the
\* construction of the ephemeral client (withEphemeralClient)
CallLookup ==
    LET a == call.agg
        m == nsMap[a][call.kind] IN
    /\ call.pc = "ensured"
    /\ IF call.op = "list"
       THEN CallReturns("list", a)
       ELSE IF call.id \notin DOMAIN m
       THEN CallReturns(NotFoundError, a)
       ELSE LET e == m[call.id] IN
            IF persist[a]
            THEN IF pcm[a] # NoManager
                 THEN /\ call' = [call EXCEPT !.pc = "conn", !.entry = e,
                                     !.acc = Accepts(pcm[a])]
                      /\ eff' = [NoEff EXCEPT
                                   !.req = {<<pcm[a], e.server_name>>},
                                   !.res = "pending", !.by = a]
                 ELSE CallThrows(e, a)
            ELSE IF e.server_name \in regServers
            THEN /\ call' = [call EXCEPT !.pc = "transport", !.entry = e,
                                !.client = "open"]
                 /\ eff' = [NoEff EXCEPT !.eph = {e.server_name},
                                          !.res = "pending", !.by = a]
            ELSE CallThrows(e, a)
    /\ UNCHANGED <<config, initialized, pcm, maps, life, load, refCount,
                   ctxMgr, mgrs>>
    /\ UNCHANGED cmVars

\* withEphemeralClient after `await this.createTransport(config)`
CallTransport(ok) ==
    /\ call.pc = "transport"
    /\ call' = IF ok THEN [call EXCEPT !.pc = "conn", !.transport = "open"]
               ELSE EnterFinally(call, "ConnectionError")
    /\ eff' = NoEff
    /\ UNCHANGED <<config, initialized, pcm, maps, life, load, refCount,
                   ctxMgr, mgrs>>
    /\ UNCHANGED cmVars

\* ... the connection (or the connected ephemeral client) is there and the
\* request is sent to its session, or it could not be made
CallConn(ok) ==
    LET e == call.entry IN
    /\ call.pc = "conn"
    /\ IF persist[call.agg] THEN ok => call.acc ELSE ~AggMicroPending
    /\ IF ok
       THEN /\ call' = [call EXCEPT !.pc = "result", !.sent = @ + 1]
            /\ eff' = [NoEff EXCEPT
                         !.invoke = {Invocation(e.server_name,
                                        CallMethod(call.kind),
                                        ForwardedName(e),
                                        IF call.kind = "resource"
                                        THEN "none" ELSE call.args)},
                         !.res = "sent", !.by = call.agg]
       ELSE IF persist[call.agg]
       THEN CallThrows(e, call.agg)
       ELSE /\ call' = EnterFinally(call, "ConnectionError")
            /\ eff' = NoEff
    /\ UNCHANGED <<config, initialized, pcm, maps, life, load, refCount,
                   ctxMgr, mgrs>>
    /\ UNCHANGED cmVars

\* ... the session answers or fails
CallResult(ok) ==
    LET res == IF ok THEN "result" ELSE "ConnectionError" IN
    /\ call.pc = "result"
    /\ ~AggMicroPending
    /\ IF persist[call.agg]
       THEN IF ok THEN CallReturns(res, call.agg)
            ELSE CallThrows(call.entry, call.agg)
       ELSE /\ call' = EnterFinally(call, res)
            /\ eff' = NoEff
    /\ UNCHANGED <<config, initialized, pcm, maps, life, load, refCount,
                   ctxMgr, mgrs>>
    /\ UNCHANGED cmVars

\* the call through an ephemeral client returns or throws; the catch block
\* of callTool / getPrompt / readResource makes any error a ConnectionError
CallEnds(r) ==
    LET res == Surfaced(r.primary, r.tdErr) IN
    IF res = "result" THEN CallReturns(res, r.agg)
    ELSE CallThrows(r.entry, r.agg)

\* the finally block of withEphemeralClient in a call: client.close() has
\* settled
CallCloseClient(ok) ==
    /\ call.pc = "closeClient"
    /\ ~AggMicroPending
    /\ LET r == AfterClientClose(call, ok) IN
       IF r.pc = "closed" THEN CallEnds(r)
       ELSE call' = r /\ eff' = NoEff
    /\ UNCHANGED <<config, initialized, pcm, maps, life, load, refCount,
                   ctxMgr, mgrs>>
    /\ UNCHANGED cmVars

\* ... transport.close() has settled
CallCloseTransport(ok) ==
    /\ call.pc = "closeTransport"
    /\ ~AggMicroPending
    /\ CallEnds(AfterTransportClose(call, ok))
    /\ UNCHANGED <<config, initialized, pcm, maps, life, load, refCount,
                   ctxMgr, mgrs>>
    /\ UNCHANGED cmVars

\* the names server S can report
Reports(S) == IF S = "a" THEN Names ELSE {"c"}

\* the identifiers callers use: every name a server can have namespaced,
\* and one no server has
CallIds ==
    UNION {{CreateNamespacedName(S, T) : T \in Reports(S)} : S \in Servers}
        \cup {"zz"}

\* ------------------------------------------------------------ specifications

NoCatalog == [S \in Servers |-> {}]
AllPersistent == [a \in Aggregators |-> TRUE]
AllServers == [a \in Aggregators |-> Servers]

\* the manager alone: no Aggregator is used
Init == InitCM /\ InitAggWith(NoCatalog, AllPersistent, AllServers)

\* callers of getConnection only (no health-check timer: interval <= 0)
NextGet ==
    \/ MgrInitialize(FALSE)
    \/ \E S \in Servers : GetConnectionCall(S)
    \/ \E k \in 1..MaxStates, ok \in BOOLEAN : TransportCreated(k, ok)
    \/ \E k \in 1..MaxStates : ConnectOk(k)
    \/ \E k \in 1..MaxStates : ConnectFail(k)
    \/ \E k \in 1..MaxStates : ConnectTimeout(k)
    \/ \E k \in 1..MaxStates, ok \in BOOLEAN : LateConnect(k, ok)
    \/ \E t \in Tasks : StarterContinue(t)
    \/ \E t \in Tasks : WaiterContinue(t)

SpecGet == Init /\ [][NextGet]_vars

\* every continuation that can run does run, and the timer of withTimeout
\* fires unless client.connect settles first; client.connect itself need
\* never settle
FairGet ==
    /\ \A t \in Tasks : /\ WF_vars(StarterContinue(t))
                        /\ WF_vars(WaiterContinue(t))
    /\ \A k \in 1..MaxStates :
         /\ WF_vars(\E ok \in BOOLEAN : TransportCreated(k, ok))
         /\ WF_vars(ConnectTimeout(k))

SpecGetFair == Init /\ [][NextGet]_vars /\ FairGet

\* the manager with its health check
NextCM ==
    \/ MgrInitialize(TRUE)
    \/ \E S \in Servers : GetConnectionCall(S)
    \/ \E k \in 1..MaxStates, ok \in BOOLEAN : TransportCreated(k, ok)
    \/ \E k \in 1..MaxStates : ConnectOk(k)
    \/ \E k \in 1..MaxStates : ConnectFail(k)
    \/ \E k \in 1..MaxStates : ConnectTimeout(k)
    \/ \E k \in 1..MaxStates, ok \in BOOLEAN : LateConnect(k, ok)
    \/ \E t \in Tasks : StarterContinue(t)
    \/ \E t \in Tasks : WaiterContinue(t)
    \/ \E t \in Tasks : CloseTransportDone(t)
    \/ \E t \in Tasks : ReconnectGet(t)
    \/ Tick

SpecCM == Init /\ [][NextCM]_vars

\* the connect attempts of the manager
Connects ==
    \/ \E k \in 1..MaxStates, ok \in BOOLEAN : TransportCreated(k, ok)
    \/ \E k \in 1..MaxStates : ConnectOk(k)
    \/ \E k \in 1..MaxStates : ConnectFail(k)
    \/ \E t \in Tasks : StarterContinue(t)
    \/ \E t \in Tasks : WaiterContinue(t)

\* the manager after initialize() with a positive healthCheckInterval
InitStarted ==
    /\ mInitialized = TRUE
    /\ mClosing = FALSE
    /\ timerOn = TRUE
    /\ connections = [S \in Servers |-> NoState]
    /\ st = <<>>
    /\ tasks = [t \in Tasks |-> IdleTask]
    /\ regServers = Servers
    /\ regConn = [S \in Servers |-> NoState]
    /\ regConfig = [S \in Servers |-> Stored(S, NodeConfig)]
    /\ regRes = NoRegRes
    /\ lastRes = [op |-> "none", server |-> "none", res |-> "none",
                  conn |-> NoState, waited |-> FALSE, cached |-> FALSE]
    /\ ticks = 0
    /\ lastTick = [healthy |-> {}, unhealthy |-> {}]
    /\ InitAggWith(NoCatalog, AllPersistent, AllServers)

\* the manager with its timer, closed by close() and closeConnection
NextClose ==
    \/ GetConnectionCall("a")
    \/ Connects
    \/ \E t \in Tasks, ok \in BOOLEAN : CloseClientDone(t, ok)
    \/ \E t \in Tasks : CloseTransportDone(t)
    \/ \E S \in Servers : CloseConnectionCall(S)
    \/ MgrCloseCall
    \/ MgrCloseEnd

SpecClose == InitStarted /\ [][NextClose]_vars

\* the manager used for two servers and closed by close()
NextCloseAll ==
    \/ \E S \in Servers : GetConnectionCall(S)
    \/ Connects
    \/ \E t \in Tasks, ok \in BOOLEAN : CloseClientDone(t, ok)
    \/ \E t \in Tasks : CloseTransportDone(t)
    \/ MgrCloseCall
    \/ MgrCloseEnd

SpecCloseAll == InitStarted /\ [][NextCloseAll]_vars

\* the health check of a manager that one caller uses for one server and
\* closes
NextCancel ==
    \/ GetConnectionCall("a")
    \/ Connects
    \/ \E t \in Tasks, ok \in BOOLEAN : CloseClientDone(t, ok)
    \/ \E t \in Tasks : CloseTransportDone(t)
    \/ \E t \in Tasks : ReconnectGet(t)
    \/ Tick
    \/ MgrCloseCallIdle
    \/ MgrCloseEnd

SpecCancel == InitStarted /\ [][NextCancel]_vars

\* state k is held by the manager, the registry, a call in progress or a
\* connect that has not settled
Referenced(k) ==
    \/ \E S \in Servers : connections[S] = k \/ regConn[S] = k
    \/ \E t \in Tasks : tasks[t].pc # "idle" /\ tasks[t].sid = k
    \/ Pending(st[k])
    \/ st[k].late = "pending"

\* the id of state i once state k is gone
Shifted(i, k) == IF i = k THEN NoState ELSE IF i > k THEN i - 1 ELSE i

\* the runtime drops a ConnectionState object nothing refers to; the ids of
\* the younger ones move down
Collect(k) ==
    /\ k \in StateIds
    /\ ~Referenced(k)
    /\ st' = [i \in 1..(Len(st) - 1) |-> IF i < k THEN st[i] ELSE st[i + 1]]
    /\ connections' = [S \in Servers |-> Shifted(connections[S], k)]
    /\ regConn' = [S \in Servers |-> Shifted(regConn[S], k)]
    /\ tasks' = [t \in Tasks |-> [tasks[t] EXCEPT !.sid = Shifted(@, k)]]
    /\ lastRes' = [lastRes EXCEPT !.conn = Shifted(@, k)]
    /\ UNCHANGED <<mgrFlags, regServers, regConfig, regRes, tickHist>>
    /\ UNCHANGED aggVars

\* a state whose client.connect was rejected, after the call that made it
\* has returned
FailedState(S) ==
    [ConnectFailed([NewState(S, 0, "get") EXCEPT !.transport = TRUE],
                   PlainError) EXCEPT !.initPromise = FALSE]

\* the manager tracks a failed connection of one server and no caller is
\* left
InitHeal ==
    /\ mInitialized = TRUE
    /\ mClosing = FALSE
    /\ timerOn = TRUE
    /\ \E S \in Servers :
         /\ connections = [R \in Servers |-> IF R = S THEN 1 ELSE NoState]
         /\ st = <<FailedState(S)>>
    /\ tasks = [t \in Tasks |-> IdleTask]
    /\ regServers = Servers
    /\ regConn = [S \in Servers |-> NoState]
    /\ regConfig = [S \in Servers |-> Stored(S, NodeConfig)]
    /\ regRes = NoRegRes
    /\ lastRes = [op |-> "get", server |-> "a", res |-> "ConnectionError",
                  conn |-> NoState, waited |-> FALSE, cached |-> FALSE]
    /\ ticks = 0
    /\ lastTick = [healthy |-> {}, unhealthy |-> {}]
    /\ InitAggWith(NoCatalog, AllPersistent, AllServers)

\* the health check alone, with every connect succeeding
NextHeal ==
    \/ Tick
    \/ \E t \in Tasks : CloseTransportDone(t)
    \/ \E t \in Tasks : ReconnectGet(t)
    \/ \E k \in 1..MaxStates : TransportCreated(k, TRUE)
    \/ \E k \in 1..MaxStates : ConnectOk(k)
    \/ \E t \in Tasks : StarterContinue(t)
    \/ \E k \in 1..MaxStates : Collect(k)

\* every timer tick, every I/O completion and every continuation that can
\* run does run
FairHeal ==
    /\ WF_vars(Tick)
    /\ \A t \in Tasks : /\ WF_vars(CloseTransportDone(t))
                        /\ WF_vars(ReconnectGet(t))
                        /\ WF_vars(StarterContinue(t))
    /\ \A k \in 1..MaxStates : /\ WF_vars(TransportCreated(k, TRUE))
                               /\ WF_vars(ConnectOk(k))
                               /\ WF_vars(Collect(k))

SpecHeal == InitHeal /\ [][NextHeal]_vars /\ FairHeal

\* callers of getConnection while servers are unregistered
NextFK ==
    \/ MgrInitialize(FALSE)
    \/ \E S \in Servers : GetConnectionCall(S)
    \/ \E k \in 1..MaxStates, ok \in BOOLEAN : TransportCreated(k, ok)
    \/ \E k \in 1..MaxStates : ConnectOk(k)
    \/ \E k \in 1..MaxStates : ConnectFail(k)
    \/ \E t \in Tasks : StarterContinue(t)
    \/ \E t \in Tasks : WaiterContinue(t)
    \/ \E S \in Servers : Unregister(S)

SpecFK == Init /\ [][NextFK]_vars

\* the registry after construction, under a manager not yet used
InitReg ==
    /\ mInitialized = FALSE
    /\ mClosing = FALSE
    /\ timerOn = FALSE
    /\ connections = [S \in Servers |-> NoState]
    /\ st = <<>>
    /\ tasks = [t \in Tasks |-> IdleTask]
    /\ regServers = {}
    /\ regConn = [S \in Servers |-> NoState]
    /\ regConfig = [S \in Servers |-> NoConfig]
    /\ regRes = NoRegRes
    /\ lastRes = [op |-> "none", server |-> "none", res |-> "none",
                  conn |-> NoState, waited |-> FALSE, cached |-> FALSE]
    /\ ticks = 0
    /\ lastTick = [healthy |-> {}, unhealthy |-> {}]
    /\ InitAggWith(NoCatalog, AllPersistent, AllServers)

\* the configs of the persisted data import() is given
ImportConfigs ==
    {c \in Configs : /\ c.transport \in {NoValue, "http", "ftp"}
                     /\ c.command = NoValue <=> c.url # NoValue}

\* the persisted data: a record of configs by name
ImportData == UNION {[D -> ImportConfigs] : D \in SUBSET RegNames}

\* the registry alone
NextReg ==
    \/ \E name \in RegNames, cfg \in Configs : Register(name, cfg)
    \/ \E name \in RegNames : Unregister(name)
    \/ Clear
    \/ \E data \in ImportData : Import(data)

SpecReg == InitReg /\ [][NextReg]_vars

\* one config register accepts and one it refuses
SampleConfigs ==
    {NodeConfig, [transport |-> "ftp", command |-> NoValue, url |-> NoValue]}

SampleData == UNION {[D -> SampleConfigs] : D \in SUBSET RegNames}

\* every operation of the registry that adds or removes a name or a
\* connection record
NextInteg ==
    \/ \E name \in RegNames, cfg \in SampleConfigs : Register(name, cfg)
    \/ \E name \in RegNames : Unregister(name)
    \/ \E name \in RegNames, k \in 1..MaxStates : SetConnection(name, k)
    \/ \E data \in SampleData : Import(data)
    \/ Clear

SpecInteg == InitReg /\ [][NextInteg]_vars

\* the registry with the connection records the manager stores in it
NextUnreg ==
    \/ \E name \in RegNames, cfg \in Configs : Register(name, cfg)
    \/ \E name \in RegNames : Unregister(name)
    \/ \E name \in RegNames, k \in 1..MaxStates : SetConnection(name, k)
    \/ Clear

SpecUnreg == InitReg /\ [][NextUnreg]_vars

\* initialize() and close() of one Aggregator
Lifecycle(a) ==
    \/ InitializeCall(a)
    \/ InitAfterLock(a)
    \/ InitAfterMgrInit(a)
    \/ InitLoadServers(a)
    \/ \E S \in Servers, ok \in BOOLEAN : LoadConn(a, S, ok)
    \/ \E S \in Servers, ok \in BOOLEAN : LoadList(a, S, ok)
    \/ \E S \in Servers : LoadUpdate(a, S)
    \/ InitSettle(a)
    \/ CloseCall(a)
    \/ CloseAfterLock(a)
    \/ CloseMgrDone(a)
    \/ CloseFinish(a)

\* the steps of a load that only an ephemeral client has
EphemeralLoad(a) ==
    \/ \E S \in Servers, ok \in BOOLEAN : LoadTransport(a, S, ok)
    \/ \E S \in Servers, ok \in BOOLEAN : LoadCloseClient(a, S, ok)
    \/ \E S \in Servers, ok \in BOOLEAN : LoadCloseTransport(a, S, ok)

\* every server reports one and the same name in every class
SharedCatalog == [S \in Servers |-> {"c"}]

\* each Aggregator is constructed over one server
OneServerEach == [a \in Aggregators |-> IF a = "a1" THEN {"a"} ELSE {"a_b"}]

InitShared ==
    InitCM /\ InitAggWith(SharedCatalog, AllPersistent, OneServerEach)

\* two persistence-enabled Aggregators of one context and the managers they
\* create; initialize() and close() calls on one Aggregator never overlap
NextShared ==
    \/ \E a \in Aggregators : Lifecycle(a)
    \/ \E m \in 1..(2 * MaxInits) : MgrCloseDone(m)

SpecShared == InitShared /\ [][NextShared]_vars

Catalogs ==
    {cat \in [Servers -> SUBSET Names] :
        \A S \in Servers : cat[S] \subseteq Reports(S)}

InitAgg ==
    /\ InitCM
    /\ \E cat \in Catalogs, p \in BOOLEAN :
         InitAggWith(cat, [a \in Aggregators |-> p], AllServers)

\* one Aggregator, its loads and the calls routed through it
NextAgg ==
    \/ Lifecycle("a1")
    \/ EphemeralLoad("a1")
    \/ \E m \in 1..MaxInits : MgrCloseDone(m)
    \/ \E K \in KindSet, id \in CallIds, args \in ArgValues :
         CallStart("a1", K, id, args)
    \/ \E K \in KindSet : ListStart("a1", K)
    \/ CallLookup
    \/ \E ok \in BOOLEAN : CallTransport(ok)
    \/ \E ok \in BOOLEAN : CallConn(ok)
    \/ \E ok \in BOOLEAN : CallResult(ok)
    \/ \E ok \in BOOLEAN : CallCloseClient(ok)
    \/ \E ok \in BOOLEAN : CallCloseTransport(ok)

SpecAgg == InitAgg /\ [][NextAgg]_vars

\* catalogs in which no two names get the same namespaced name
PlainCatalogs ==
    {cat \in Catalogs : ~("b_c" \in cat["a"] /\ "c" \in cat["a_b"])}

InitReload ==
    /\ InitCM
    /\ \E cat \in PlainCatalogs : InitAggWith(cat, AllPersistent, AllServers)

\* one Aggregator that is initialized again (force) over servers that stop
\* reporting some of their tools, prompts and resources
NextReload ==
    \/ Lifecycle("a1")
    \/ InitializeForce("a1")
    \/ \E S \in Servers, T \in Names : ServerDrops(S, T)
    \/ \E m \in 1..MaxInits : MgrCloseDone(m)

SpecReload == InitReload /\ [][NextReload]_vars

\* one Aggregator that is reloaded (force) while its lists are read
NextObserve ==
    \/ Lifecycle("a1")
    \/ InitializeForce("a1")
    \/ \E m \in 1..MaxInits : MgrCloseDone(m)
    \/ \E K \in KindSet : ListStart("a1", K)
    \/ CallLookup

SpecObserve == InitReload /\ [][NextObserve]_vars

\* two Aggregators of one context: initialize(), initialize(true) and
\* close() in any order, one call at a time on each Aggregator
NextRef ==
    \/ \E a \in Aggregators : Lifecycle(a)
    \/ \E a \in Aggregators : InitializeForce(a)
    \/ \E a \in Aggregators : CloseCallClosed(a)
    \/ \E m \in 1..(2 * MaxInits) : MgrCloseDone(m)

SpecRef == InitShared /\ [][NextRef]_vars

\* original names with and without the separator
WideNames == Names \cup {"b"}

NameCatalogs == [Servers -> SUBSET WideNames]

InitNames ==
    /\ InitCM
    /\ \E cat \in NameCatalogs : InitAggWith(cat, AllPersistent, AllServers)

\* one Aggregator loading servers that report any of the names
NextNames ==
    \/ Lifecycle("a1")
    \/ \E m \in 1..MaxInits : MgrCloseDone(m)

SpecNames == InitNames /\ [][NextNames]_vars

\* ------------------------------------------------------------ claims

AttemptsOf(S) == {k \in StateIds : st[k].server = S}

LastOk(S) ==
    LET oks == {k \in AttemptsOf(S) : st[k].phase = "ok"} IN
    IF oks = {} THEN 0 ELSE CHOOSE k \in oks : \A j \in oks : j <= k

\* failed connect attempts to S since its last successful one (attempts of
\* getConnection callers to one server follow each other, so ids are in order
\* of time)
ConsecFail(S) ==
    Cardinality({k \in AttemptsOf(S) : k > LastOk(S) /\ st[k].phase = "fail"})

\* the call that started a settled attempt to S has not yet run its catch /
\* finally block
StarterPending(S) ==
    \E t \in Tasks : /\ tasks[t].pc = "awaitOwn"
                     /\ tasks[t].server = S
                     /\ Settled(st[tasks[t].sid])

\* task t starts a call in this step
Starts(t) == tasks[t].pc = "idle" /\ tasks'[t].pc # "idle"

\* C1: a getConnection(S) called while a connect attempt to S has not settled
\* starts no new attempt and awaits the one in flight; every caller of an
\* attempt that succeeded receives the connection object of that attempt; at
\* most one connect attempt to S is in flight.
C1_SingleInFlightAttempt ==
    /\ [](\A S \in Servers : Cardinality(InFlight(S)) <= 1)
    /\ [][/\ \A S \in Servers :
               InFlight(S) # {} =>
                 (Len(st') > Len(st) => st'[Len(st')].server # S)
          /\ \A t \in Tasks :
               (Starts(t) /\ InFlight(tasks'[t].server) # {}) =>
                 /\ tasks'[t].pc = "awaitExisting"
                 /\ tasks'[t].sid \in InFlight(tasks'[t].server)
          /\ \A t \in Tasks :
               (/\ tasks[t].pc \in {"awaitOwn", "awaitExisting"}
                /\ tasks'[t] # tasks[t]
                /\ st[tasks[t].sid].phase = "ok") =>
                 /\ tasks'[t].pc = "idle"
                 /\ lastRes'.res = "conn"
                 /\ lastRes'.conn = tasks[t].sid]_vars

\* a caller that joined an attempt in flight has received its connection
C1_Witness ==
    /\ lastRes.res = "conn"
    /\ lastRes.waited
    /\ lastRes.op = "get"

\* C4: with maxRetries = N, after N consecutive failed attempts the manager
\* holds no state for S; before the N-th the failed state stays cached with
\* retry count = number of consecutive failures; the attempt after an
\* eviction starts from 0, and a connected state has retry count 0.
C4_RetryEviction ==
    \A S \in Servers :
      ~StarterPending(S) =>
        LET n == ConsecFail(S)
            k == connections[S] IN
        /\ (n > 0 /\ n % MaxRetries = 0 /\ InFlight(S) = {}) => k = NoState
        /\ n % MaxRetries # 0 =>
             (k # NoState /\ st[k].retryCount = n % MaxRetries)
        /\ (n % MaxRetries = 0 /\ k # NoState) => st[k].retryCount = 0
        /\ S \in regServers

\* N consecutive failures have evicted the state of a server
C4_Witness ==
    \E S \in Servers :
      /\ ConsecFail(S) = MaxRetries
      /\ ~StarterPending(S)
      /\ connections[S] = NoState

\* C5: reconnect(S) is re-entrant: the connect attempts started by
\* reconnect(S) calls are never more than one in flight, and one in flight
\* stays the tracked attempt of S (it is reused, not discarded).
C5_ReconnectReentrant ==
    \A S \in Servers :
      LET rs == {k \in InFlight(S) : st[k].via = "reconnect"} IN
      /\ Cardinality(rs) <= 1
      /\ \A k \in rs : connections[S] = k

\* reconnect(S) is invoked for S in this step
Reconnected(S) ==
    \E t \in Tasks : /\ Starts(t)
                     /\ tasks'[t].op = "reconnect"
                     /\ tasks'[t].server = S

\* C6: a health-check tick invokes reconnect exactly for the tracked servers
\* that are not healthy, and leaves the tracked state of every healthy server
\* as it is.
C6_TickReconnectsUnhealthyOnly ==
    [][ticks' # ticks =>
         \A S \in Servers :
           LET k == connections[S] IN
           /\ Reconnected(S) <=>
                (k # NoState /\ ~IsConnectionHealthy(st[k]))
           /\ (k # NoState /\ IsConnectionHealthy(st[k])) =>
                (connections'[S] = k /\ st'[k] = st[k])]_vars

\* a tick has found one server healthy and reconnects another
C6_Witness ==
    \E S1 \in lastTick.healthy, S2 \in lastTick.unhealthy :
      /\ connections[S1] # NoState
      /\ IsConnectionHealthy(st[connections[S1]])
      /\ \E t \in Tasks : /\ tasks[t].op = "reconnect"
                          /\ tasks[t].server = S2
                          /\ tasks[t].pc \in {"closeTransport", "recGet"}

\* Aggregator b is open: initialized, and no close() of it is in progress
Open(b) ==
    /\ initialized[b]
    /\ life[b].pc \notin {"closeLock", "closeMgr", "closeTail"}

\* C2: close() of one Aggregator calls close() of the manager only when no
\* other Aggregator holding that manager is open, and the closing Aggregator
\* was itself open.
C2_CloseKeepsSharedManager ==
    \A m \in eff.closed :
      /\ initialized[eff.by]
      /\ \A b \in Aggregators \ {eff.by} : ~(Open(b) /\ pcm[b] = m)

\* an Aggregator has released its reference while another one is open on
\* the same manager, and the manager is still up
C2_Witness ==
    \E a, b \in Aggregators :
      /\ a # b
      /\ life[a].pc = "closeTail"
      /\ Open(b)
      /\ pcm[a] # NoManager
      /\ pcm[b] = pcm[a]
      /\ ctxMgr = pcm[a]
      /\ mgrs[pcm[a]].initialized
      /\ ~mgrs[pcm[a]].closing

\* C3: a context has at most one manager that is up, all initialized
\* persistence-enabled Aggregators hold the same manager, and close() of a
\* manager is called only with the reference count at zero.
C3_OneSharedManager ==
    /\ Cardinality({m \in 1..Len(mgrs) : mgrs[m].initialized}) <= 1
    /\ \A a, b \in Aggregators :
         (initialized[a] /\ initialized[b] /\ persist[a] /\ persist[b]) =>
           pcm[a] = pcm[b]
    /\ eff.closed # {} => refCount = 0

\* C7: the request callTool / getPrompt / readResource sends goes to the
\* session of the server that owns the map entry of the identifier, under
\* the original name of that entry and with the caller's arguments.
C7_CallForwardsOriginal ==
    /\ eff.res = "pending" =>
         /\ call.id \in DOMAIN nsMap[call.agg][call.kind]
         /\ call.entry = nsMap[call.agg][call.kind][call.id]
    /\ eff.res = "sent" =>
         eff.invoke =
           {[server |-> call.entry.server_name,
             method |-> CallMethod(call.kind),
             name |-> call.entry.original_name,
             args |-> IF call.kind = "resource" THEN "none" ELSE call.args]}

\* a tool call has been sent to a session
C7_Witness ==
    /\ eff.res = "sent"
    /\ call.kind = "tool"
    /\ call.entry.original_name = "b_c"

\* C8: a call with an identifier that is not a key of the map of its class
\* throws ValidationError and requests no connection, creates no client
\* and sends nothing to a session.
C8_UnknownIdentifier ==
    [][(/\ call.pc = "ensured"
        /\ call.op = "call"
        /\ call' # call
        /\ call.id \notin DOMAIN nsMap[call.agg][call.kind]) =>
          /\ call'.pc = "idle"
          /\ eff'.res = "ValidationError"
          /\ eff'.req = {}
          /\ eff'.eph = {}
          /\ eff'.invoke = {}
          /\ mgrs' = mgrs]_vars

\* a call has been refused for its identifier
C8_Witness ==
    /\ eff.res = "ValidationError"
    /\ initialized[eff.by]

\* another tool of a configured server gets the same namespaced name
Collides(a, S, T) ==
    \E S2 \in serverNames[a] : \E T2 \in catalog[S2] :
      /\ <<S2, T2>> # <<S, T>>
      /\ S2 \o "_" \o T2 = S \o "_" \o T

\* listTools() has exactly one entry for tool T of server S, as reported
ListsTool(a, S, T) ==
    LET es == {e \in ListTools(a) : e.name = S \o "_" \o T} IN
    /\ Cardinality(es) = 1
    /\ \A e \in es : /\ e.inputSchema = Item(S, "tool", T).inputSchema
                     /\ e.description = Item(S, "tool", T).description

\* C9 as stated: after initialize() has succeeded, listTools() has exactly
\* one entry S_T for every tool T a configured server S reports, with the
\* schema and description S reported.
C9_ListToolsAllTools ==
    \A a \in Aggregators :
      initialized[a] =>
        \A S \in serverNames[a] : \A T \in catalog[S] : ListsTool(a, S, T)

\* C9: ... for every tool T of S whose namespaced name no other reported
\* tool of a configured server shares.
C9_ListToolsNamespaced ==
    \A a \in Aggregators :
      initialized[a] =>
        \A S \in serverNames[a] : \A T \in catalog[S] :
          ~Collides(a, S, T) => ListsTool(a, S, T)

\* an initialized Aggregator over two servers that both report tools
C9_Witness ==
    /\ initialized["a1"]
    /\ \A S \in Servers : catalog[S] # {}
    /\ \E S \in Servers : \E T \in catalog[S] : ~Collides("a1", S, T)

\* C10: initialize() rejects when the load of a configured server has
\* rejected; it then leaves the initialized flag unset and the namespaced
\* maps as they are.
C10_InitializeRejects ==
    /\ [](\A a \in Aggregators :
            (life[a].pc = "loading" /\ LoadRejected(a)) => ~initialized[a])
    /\ [][\A a \in Aggregators :
            (/\ life[a].pc = "loading"
             /\ life'[a].pc # "loading"
             /\ LoadRejected(a)) =>
               /\ eff'.res = "rejected"
               /\ ~initialized'[a]
               /\ nsMap'[a] = nsMap[a]]_vars

\* initialize() has rejected and entries of another server are in the map
C10_Witness ==
    /\ eff.res = "rejected"
    /\ ~initialized[eff.by]
    /\ DOMAIN nsMap[eff.by]["tool"] # {}

\* register(name, cfg) has been called in this step
Registers == regRes' # regRes /\ regRes'.op = "register"

RegistryKept == regServers' = regServers /\ regConfig' = regConfig

\* C11: register with an empty name throws ValidationError and with a name
\* already registered ConfigurationError; either leaves the registered names
\* and their stored configs as they are and emits nothing.  Every stored
\* config is kept under its own name.
C11_RegisterRejectsDuplicate ==
    /\ [][Registers =>
            /\ regRes'.name = "" =>
                  (regRes'.res = "ValidationError" /\ RegistryKept
                     /\ regRes'.events = {})
            /\ regRes'.name \in regServers =>
                  (regRes'.res = "ConfigurationError" /\ RegistryKept
                     /\ regRes'.events = {})]_vars
    /\ [](\A S \in Servers :
            IF S \in regServers THEN regConfig[S].name = S
            ELSE regConfig[S] = NoConfig)

\* a valid config has been refused for its name, which is registered
C11_Witness ==
    /\ regRes.op = "register"
    /\ regRes.res = "ConfigurationError"
    /\ regRes.name \in regServers
    /\ ValidateConfig(regRes.cfg) = "ok"
    /\ regConfig[regRes.name] # Stored(regRes.name, regRes.cfg)

\* C12: register of a new name rejects a stdio config (given or by default)
\* without command and an http / websocket config without url; a config
\* without transport that has a command is stored with transport stdio; a
\* rejected register stores nothing.
C12_RegisterValidatesTransport ==
    [][(Registers /\ regRes'.name \in Servers \ regServers) =>
         LET c == regRes'.cfg
             n == regRes'.name IN
         /\ (c.transport \in {NoValue, "stdio"} /\ c.command = NoValue) =>
               regRes'.res # "ok"
         /\ (c.transport \in {"http", "websocket"} /\ c.url = NoValue) =>
               regRes'.res # "ok"
         /\ (c.transport = NoValue /\ c.command # NoValue) =>
               /\ regRes'.res = "ok"
               /\ n \in regServers'
               /\ regConfig'[n].transport = "stdio"
               /\ regConfig'[n].command = c.command
         /\ regRes'.res # "ok" => (RegistryKept /\ regRes'.events = {})]_vars

\* a config without transport is stored as a stdio config
C12_Witness ==
    /\ regRes.op = "register"
    /\ regRes.res = "ok"
    /\ regRes.cfg.transport = NoValue
    /\ regConfig[regRes.name].transport = "stdio"

\* C13: register of a new name with a transport outside stdio / http /
\* websocket throws ConfigurationError; with a required field missing, or
\* with an empty name, it throws ValidationError.
C13_UnsupportedTransportError ==
    [][Registers =>
         LET c == regRes'.cfg IN
         /\ regRes'.name = "" => regRes'.res = "ValidationError"
         /\ regRes'.name \in Servers \ regServers =>
               /\ c.transport \notin {NoValue, "stdio", "http", "websocket"}
                     => regRes'.res = "ConfigurationError"
               /\ (c.transport \in {NoValue, "stdio"}
                      /\ c.command = NoValue) =>
                     regRes'.res = "ValidationError"
               /\ (c.transport \in {"http", "websocket"}
                      /\ c.url = NoValue) =>
                     regRes'.res = "ValidationError"]_vars

\* the getConnection call of task t returns in this step from awaiting an
\* attempt whose timer fired before client.connect settled
ReturnsTimedOut(t) ==
    /\ tasks[t].pc \in {"awaitOwn", "awaitExisting"}
    /\ tasks'[t].pc = "idle"
    /\ st[tasks[t].sid].late # "none"

\* C14 as stated: a getConnection(S) whose connect did not settle within
\* connectionTimeout fails with a TimeoutError carrying the configured
\* timeout.
C14_TimeoutErrorToCaller ==
    [][\A t \in Tasks :
         ReturnsTimedOut(t) =>
           /\ lastRes'.res = "TimeoutError"
           /\ st[tasks[t].sid].cause.timeoutMs = ConnectionTimeout]_vars

\* C14: ... the attempt fails with a TimeoutError carrying the configured
\* timeout, which its ConnectionState stores as its error, and the
\* getConnection(S) call fails with a ConnectionError for S.
C14_TimeoutWrapped ==
    [][\A t \in Tasks :
         ReturnsTimedOut(t) =>
           LET k == tasks[t].sid IN
           /\ st[k].error
           /\ st[k].cause = TimeoutError(ConnectionTimeout)
           /\ lastRes'.res = "ConnectionError"
           /\ lastRes'.server = st[k].server
           /\ lastRes'.conn = NoState]_vars

\* a getConnection call has failed and every attempt so far timed out
C14_Witness ==
    /\ lastRes.op = "get"
    /\ lastRes.res = "ConnectionError"
    /\ StateIds # {}
    /\ \A k \in StateIds : st[k].late # "none"
    /\ \A t \in Tasks : tasks[t].pc = "idle"

\* the client of state k is connected over its transport
HandleOpen(k) == st[k].phase = "ok" \/ st[k].late = "open"

\* close() of the client or of the transport of state k has been called
BeingClosed(k) == st[k].clientClosed \/ st[k].transportClosed

\* C15: every open session / transport is the one of the tracked
\* ConnectionState of its server or is being closed; so is the one of a
\* connect that settles after its timer has fired.
C15_NoDanglingHandle ==
    \A k \in StateIds :
      HandleOpen(k) => (connections[st[k].server] = k \/ BeingClosed(k))

\* C16: without persistence a call that has found its identifier, and a
\* load, create a client of their own and ask no manager; when the call
\* returns or the load ends, close() of that client and of its transport,
\* if one was made, have been called, and the caller gets the outcome of
\* the operation (for a call, errors as ConnectionError) whether or not a
\* close() threw.
C16_EphemeralTeardown ==
    [][/\ (call.pc = "ensured" /\ call'.pc \notin {"idle", "ensured"}
             /\ ~persist[call.agg]) =>
            /\ call'.client = "open"
            /\ eff'.eph = {call'.entry.server_name}
            /\ eff'.req = {}
       /\ (call.client # "none" /\ call'.pc = "idle") =>
            /\ call.client = "closed"
            /\ call.transport # "open"
            /\ call.primary # "none"
            /\ eff'.res = IF call.primary = "result" THEN "result"
                          ELSE "ConnectionError"
       /\ \A a \in Aggregators : \A S \in Servers :
            /\ (~persist[a] /\ load[a][S].pc \in {"idle", "done", "fail"}
                  /\ load'[a][S].pc \notin {"idle", "done", "fail"}) =>
                 /\ load'[a][S].client = "open"
                 /\ S \in eff'.eph
                 /\ eff'.req = {}
            /\ (load[a][S].client # "none"
                  /\ load'[a][S].client = "none") =>
                 /\ load[a][S].client = "closed"
                 /\ load[a][S].transport # "open"
                 /\ load'[a][S].pc = IF load[a][S].primary = "ok"
                                     THEN "done" ELSE "fail"]_vars

\* close() of the ephemeral client of a call has thrown, close() of its
\* transport has been called, and the result of the call is kept
C16_Witness ==
    /\ call.pc = "closeTransport"
    /\ call.tdErr
    /\ call.primary = "result"
    /\ call.client = "closed"
    /\ call.transport = "closed"
    /\ \E S \in Servers : load[call.agg][S].pc = "done"

\* the steps in which Aggregator a refuses a call because it is not
\* initialized
Refuses(a) ==
    /\ ~initialized[a]
    /\ call.pc = "idle"
    /\ eff'.by = a
    /\ life' = life
    /\ \/ \E K \in KindSet : ListStart(a, K)
       \/ \E K \in KindSet, id \in CallIds, args \in ArgValues :
            CallStart(a, K, id, args)

\* C17: a list or call operation goes on past ensureInitialized only on an
\* initialized Aggregator; on one that is not, it throws Error, asks for no
\* connection, makes no client and invokes no session.  close() ends with
\* the six maps empty and the flag reset, and a first initialize() that
\* rejects leaves the flag unset.
C17_RequiresInitialized ==
    [][/\ (call.pc = "idle" /\ call'.pc # "idle") =>
            initialized[call'.agg]
       /\ \A a \in Aggregators :
            Refuses(a) =>
              /\ call' = IdleCall
              /\ eff' = [NoEff EXCEPT !.res = "Error", !.by = a]
       /\ eff'.res = "closed" =>
            /\ ~initialized'[eff'.by]
            /\ nsMap'[eff'.by] = EmptyMaps
            /\ srvMap'[eff'.by] = EmptyMaps
       /\ (eff'.res = "rejected" /\ ~initialized[eff'.by]) =>
            ~initialized'[eff'.by]]_vars

\* a call has been refused on an Aggregator that was initialized over
\* servers with tools and then closed
C17_Witness ==
    /\ eff.res = "Error"
    /\ eff.by = "a1"
    /\ ~initialized["a1"]
    /\ life["a1"].pc = "idle"
    /\ \A S \in Servers : load["a1"][S].pc = "done" /\ catalog[S] # {}
    /\ nsMap["a1"] = EmptyMaps

\* C19: a call sends at most one request, to the session of the server that
\* owns the entry, and a call on a known identifier that does not return
\* the result throws a ConnectionError whose server is that server.
C19_NoRetryTaggedError ==
    [][/\ call'.sent <= 1
       /\ eff'.invoke # {} =>
            /\ call.sent = 0
            /\ call'.sent = 1
            /\ \A i \in eff'.invoke : i.server = call.entry.server_name
       /\ (/\ call.op = "call"
           /\ call.pc \notin {"idle", "ensured"}
           /\ call'.pc = "idle"
           /\ eff'.res # "result") =>
             /\ eff'.res = "ConnectionError"
             /\ eff'.tag = call.entry.server_name
       /\ (/\ call.op = "call"
           /\ call.pc = "ensured"
           /\ call'.pc = "idle"
           /\ call.id \in DOMAIN nsMap[call.agg][call.kind]) =>
             /\ eff'.res = "ConnectionError"
             /\ eff'.tag = nsMap[call.agg][call.kind][call.id].server_name]_vars

\* the session of the owning server has failed a request that was sent
C19_Witness ==
    /\ call.pc = "idle"
    /\ eff.res = "ConnectionError"
    /\ eff.tag \in Servers
    /\ initialized[eff.by]

\* the identifier T contains the separator
HasSeparator(T) ==
    \E i \in 1..Len(T) : SubSeq(T, i, i) = NAMESPACE_SEPARATOR

\* no server reports an identifier that contains the separator
SeparatorFree == \A S \in Servers : \A T \in catalog[S] : ~HasSeparator(T)

\* the (server, identifier) pairs the servers of Aggregator a report
Pairs(a) == {<<S, T>> \in serverNames[a] \X WideNames : T \in catalog[S]}

\* C20: two different (server, identifier) pairs whose identifiers have no
\* separator get different namespaced names, and when no reported
\* identifier has a separator an initialized Aggregator has in every
\* namespaced map one entry per reported pair, each as its server reported
\* it.
C20_NamespacingCollisionFree ==
    /\ \A S1 \in Servers, S2 \in Servers :
         \A T1 \in WideNames, T2 \in WideNames :
           (/\ <<S1, T1>> # <<S2, T2>>
            /\ ~HasSeparator(T1)
            /\ ~HasSeparator(T2)) =>
             CreateNamespacedName(S1, T1) # CreateNamespacedName(S2, T2)
    /\ \A a \in Aggregators :
         (initialized[a] /\ SeparatorFree) =>
           \A K \in KindSet :
             /\ Cardinality(DOMAIN nsMap[a][K]) = Cardinality(Pairs(a))
             /\ \A p \in Pairs(a) :
                  LET k == CreateNamespacedName(p[1], p[2]) IN
                  /\ k \in DOMAIN nsMap[a][K]
                  /\ nsMap[a][K][k] = NamespacedItem(p[1], K, p[2])

\* both servers have reported the same two separator-free identifiers and
\* the Aggregator is initialized
C20_Witness ==
    /\ initialized["a1"]
    /\ SeparatorFree
    /\ \A S \in Servers : catalog[S] = {"b", "c"}
    /\ Cardinality(DOMAIN nsMap["a1"]["tool"]) = 4

\* C22: a close() made while a close() is in progress returns at once and
\* changes nothing; a close() of a closed manager calls no close() of a
\* client or transport; when close() resolves, and ever after, the manager
\* tracks no connection, has no timer and is not initialized; no state is
\* taken through closeConnection twice.
C22_CloseIdempotent ==
    /\ [][/\ (mClosing /\ mClosing' /\ lastRes' # lastRes
                /\ lastRes' = ClosedAll) =>
               /\ st' = st
               /\ connections' = connections
               /\ tasks' = tasks
               /\ mgrFlags' = mgrFlags
          /\ (~mClosing /\ mClosing' /\ ~mInitialized) =>
               /\ st' = st
               /\ tasks' = tasks
               /\ Tracked = {}
               /\ ~timerOn'
          /\ (mClosing /\ ~mClosing') =>
               /\ connections' = [S \in Servers |-> NoState]
               /\ ~timerOn'
               /\ ~mInitialized']_vars
    /\ []((~mInitialized /\ ~mClosing) => (Tracked = {} /\ ~timerOn))
    /\ [](\A k \in StateIds : st[k].emitted <= 1)

\* a close() has returned at once while the close() before it is waiting
\* for the connections of two servers to close
C22_Witness ==
    /\ mClosing
    /\ lastRes = ClosedAll
    /\ \A t \in Tasks : tasks[t].op = "closeAll"

\* C23: closeConnection(S) never throws; for a tracked server it ends with
\* the entry of S deleted and one 'connection-closed' event more, whether
\* close() of the client or of the transport resolved or threw; for a server
\* that is not tracked it changes nothing.
C23_CloseConnectionBestEffort ==
    /\ [](lastRes.op = "close" => lastRes.res = "ok")
    /\ [][/\ \A t \in Tasks :
               (/\ tasks[t].op = "close"
                /\ tasks'[t].op # "close") =>
                  /\ lastRes' = [op |-> "close", server |-> tasks[t].server,
                                 res |-> "ok", conn |-> NoState,
                                 waited |-> FALSE, cached |-> FALSE]
                  /\ connections'[tasks[t].server] = NoState
                  /\ st'[tasks[t].sid].emitted =
                       st[tasks[t].sid].emitted + 1
          /\ \A S \in Servers :
               (/\ tasks' = tasks
                /\ lastRes'.op = "close"
                /\ lastRes'.server = S
                /\ CloseConnectionCall(S)) =>
                  LET k == connections[S] IN
                  IF k = NoState
                  THEN st' = st /\ connections' = connections
                  ELSE /\ connections'[S] = NoState
                       /\ st'[k].emitted = st[k].emitted + 1]_vars

\* closeConnection has returned after close() of the client threw: the
\* transport of the state was never closed, the event has been emitted
C23_Witness ==
    /\ lastRes.op = "close"
    /\ \E k \in StateIds :
         /\ st[k].clientClosed
         /\ st[k].transport
         /\ ~st[k].transportClosed
         /\ st[k].emitted = 1
         /\ connections[st[k].server] = NoState

\* C30: while close() is in progress and after it no connect attempt is
\* started by a reconnect of the health check, and once close() has
\* resolved the manager tracks no connection.
C30_HealthCheckCancelled ==
    /\ [][((mClosing \/ ~mInitialized) /\ Len(st') > Len(st)) =>
            st'[Len(st')].via # "reconnect"]_vars
    /\ []((~mInitialized /\ ~mClosing) => Tracked = {})

\* server S is tracked and not healthy / tracked and healthy
TrackedUnhealthy(S) ==
    connections[S] # NoState /\ ~IsConnectionHealthy(st[connections[S]])

TrackedHealthy(S) ==
    connections[S] # NoState /\ IsConnectionHealthy(st[connections[S]])

\* C21: with the manager initialized, its timer running, no close() and no
\* caller, a tracked connection that is not healthy becomes healthy once
\* every connect succeeds.
C21_SelfHealing ==
    \A S \in Servers : TrackedUnhealthy(S) ~> TrackedHealthy(S)

\* C27: initialize() without force on an initialized Aggregator returns at
\* once: the reference count, the manager, the loads, the flag and the maps
\* stay as they are and no connection is requested.
C27_InitializeIdempotent ==
    [][\A a \in Aggregators :
         (initialized[a] /\ life[a].pc = "idle" /\ InitializeCall(a)) =>
           /\ life'[a].pc = "idle"
           /\ refCount' = refCount
           /\ ctxMgr' = ctxMgr
           /\ mgrs' = mgrs
           /\ pcm' = pcm
           /\ load' = load
           /\ initialized' = initialized
           /\ maps' = maps
           /\ eff'.req = {}
           /\ eff'.invoke = {}]_vars

\* initialize() has returned at once on an Aggregator that shares the
\* manager with another initialized one
C27_Witness ==
    /\ eff.res = "already"
    /\ life[eff.by].pc = "idle"
    /\ \A a \in Aggregators : initialized[a]
    /\ refCount = 2

\* the section protected by the context lock is in progress in Aggregator
\* a: it is suspended at manager.initialize() or at manager.close()
InSection(a) == life[a].pc \in {"initMgr", "closeMgr"}

\* C29: at most one section protected by the context lock is in progress;
\* a caller that arrives while one is suspended waits for it to complete.
C29_LockSerializes ==
    Cardinality({a \in Aggregators : InSection(a)}) <= 1

\* C28: every state a reader can see has, for each class and each server
\* loaded, all the entities of that load under their namespaced names in
\* the shared map, and the update of a class puts all entities the server
\* reported into both maps in one step.
C28_UpdateSingleStep ==
    /\ [](\A a \in Aggregators : \A K \in KindSet :
            \A S \in DOMAIN srvMap[a][K] : \A e \in srvMap[a][K][S] :
              /\ e.namespaced_name \in DOMAIN nsMap[a][K]
              /\ nsMap[a][K][e.namespaced_name] = e)
    /\ [][\A a \in Aggregators : \A S \in Servers :
            (load[a][S].pc = "upd" /\ load'[a][S].pc # "upd") =>
              LET K == Kinds[load[a][S].kind] IN
              /\ srvMap'[a][K][S] =
                   {NamespacedItem(S, K, T) : T \in catalog[S]}
              /\ \A T \in catalog[S] :
                   nsMap'[a][K][CreateNamespacedName(S, T)] =
                     NamespacedItem(S, K, T)]_vars

\* a list call of an initialized Aggregator is about to read the map of a
\* class while the reload of a server with two entities is between classes
C28_Witness ==
    /\ call.op = "list"
    /\ call.pc = "ensured"
    /\ initialized["a1"]
    /\ \E S \in Servers :
         /\ Cardinality(catalog[S]) = 2
         /\ load["a1"][S].pc = "list"
         /\ load["a1"][S].kind = 2
         /\ call.kind = "tool"
         /\ Cardinality(srvMap["a1"]["tool"][S]) = 2

CachedHealthy(S) ==
    /\ connections[S] # NoState
    /\ st[connections[S]].connected
    /\ ~st[connections[S]].error
    /\ st[connections[S]].session

\* C33: getConnection(S) on an initialized manager whose cached state of S
\* is healthy returns that connection, starts no attempt, does not depend on
\* the registry and changes no manager or registry state; an attempt for S
\* is started only when S has no cached state or an unhealthy one.
C33_CachedConnectionReturned ==
    /\ [][\A S \in Servers :
            (GetConnectionCall(S) /\ mInitialized /\ CachedHealthy(S)) =>
              /\ lastRes' = [op |-> "get", server |-> S, res |-> "conn",
                             conn |-> connections[S], waited |-> FALSE,
                             cached |-> TRUE]
              /\ <<mgrFlags, connections, st, tasks, registry>>' =
                   <<mgrFlags, connections, st, tasks, registry>>]_vars
    /\ [][\A S \in Servers :
            (Len(st') > Len(st) /\ st'[Len(st')].server = S) =>
              ~CachedHealthy(S)]_vars

\* the cached connection of a server that is no longer registered has been
\* returned
C33_Witness ==
    /\ lastRes.cached
    /\ lastRes.op = "get"
    /\ lastRes.server \notin regServers
    /\ connections[lastRes.server] = lastRes.conn
    /\ \A t \in Tasks : tasks[t].pc = "idle"

\* the Aggregators that have acquired the shared manager and not released it
Holders == {a \in Aggregators : life[a].holds}

\* no initialize() or close() of an Aggregator or a manager is in progress
Quiet ==
    /\ \A a \in Aggregators : life[a].pc = "idle"
    /\ \A m \in 1..Len(mgrs) : ~mgrs[m].closing

\* C34: the reference count of the context is never negative and is the
\* number of Aggregators holding the shared manager; between calls the
\* manager of the context exists and is open exactly when the count is
\* positive.
C34_ReferenceCount ==
    /\ refCount >= 0
    /\ refCount = Cardinality(Holders)
    /\ Quiet =>
         ((/\ ctxMgr # NoManager
           /\ mgrs[ctxMgr].initialized) <=> refCount > 0)

\* manager m is up: initialized, and its close() has not been called
ManagerUp(m) ==
    /\ m # NoManager
    /\ mgrs[m].initialized
    /\ ~mgrs[m].closing

\* C35: an Aggregator that is initialized with persistence enabled, and is
\* not being closed, holds a manager that is neither closed nor being
\* closed.
C35_HoldsOpenManager ==
    \A a \in Aggregators :
      (persist[a] /\ Open(a)) => ManagerUp(pcm[a])

\* close() of the manager has resolved and initialize() was not called since
ManagerClosed == ~mInitialized /\ ~mClosing /\ lastRes = ClosedAll

\* C36: once close() of the manager has resolved, every session or
\* transport the manager opened has had its close() called, and none opens
\* later; an attempt in flight at close() or closeConnection(S) never ends
\* as an established connection of a state that is not tracked.
C36_NothingOpenAfterClose ==
    /\ ManagerClosed => \A k \in StateIds : HandleOpen(k) => BeingClosed(k)
    /\ \A k \in StateIds :
         (HandleOpen(k) /\ st[k].emitted > 0) => BeingClosed(k)

\* C37: a getConnection(S) called after closeConnection(S) has called
\* close() of the session does not return the connection being closed, and
\* the finally block of closeConnection(S) removes from the map only the
\* state that call closed.
C37_CloseGetInterleaving ==
    /\ [][\A S \in Servers :
            (GetConnectionCall(S) /\ lastRes'.res = "conn"
               /\ lastRes'.server = S /\ lastRes'.cached) =>
              ~BeingClosed(lastRes'.conn)]_vars
    /\ [][\A t \in Tasks :
            (/\ tasks[t].op = "close"
             /\ tasks[t].pc \in {"closeClient", "closeTransport"}
             /\ tasks'[t].pc = "idle"
             /\ connections[tasks[t].server] # NoState) =>
              connections[tasks[t].server] = tasks[t].sid]_vars

\* MCPServerRegistry.isConnected(name): the stored connection object, if
\* any, has connected = true
IsConnected(S) == regConn[S] # NoState /\ st[regConn[S]].connected

\* C38: the registry reports S as connected only if the manager tracks a
\* healthy state for S.
C38_RegistryAgreesWithManager ==
    \A S \in Servers : IsConnected(S) => S \in HealthyNow

\* C39: every name with a connection record in the registry has a config
\* in the registry; setConnection for an unregistered name throws
\* ConfigurationError, stores nothing and emits nothing.
C39_RegistryIntegrity ==
    /\ [](\A S \in Servers : regConn[S] # NoState => S \in regServers)
    /\ [][\A name \in RegNames, k \in 1..MaxStates :
            (SetConnection(name, k) /\ name \notin regServers) =>
              /\ regRes'.res = "ConfigurationError"
              /\ regRes'.events = {}
              /\ regConn' = regConn
              /\ regServers' = regServers]_vars

\* setConnection has been refused for a server that has no config, while
\* another server has its connection record
C39_Witness ==
    /\ regRes.op = "setConnection"
    /\ regRes.res = "ConfigurationError"
    /\ regRes.name \in Servers \ regServers
    /\ \E S \in regServers : regConn[S] # NoState

\* C40: every getConnection(S) call that awaits a connect attempt, as the
\* caller that started it or as one that joined it, eventually returns or
\* throws, also when client.connect never settles.
C40_GetConnectionSettles ==
    \A t \in Tasks :
      (tasks[t].op = "get" /\ tasks[t].pc \in {"awaitOwn", "awaitExisting"})
        ~> (tasks[t].pc = "idle")

\* the caller that joined an attempt has received its error after the timer
\* fired, while client.connect of that attempt has still not settled
C40_Witness ==
    /\ lastRes.op = "get"
    /\ lastRes.waited
    /\ lastRes.res = "ConnectionError"
    /\ \A t \in Tasks : tasks[t].pc = "idle"
    /\ \E k \in StateIds :
         /\ st[k].server = lastRes.server
         /\ st[k].cause = TimeoutError(ConnectionTimeout)
         /\ st[k].late = "pending"
         /\ connections[lastRes.server] = k

\* a getConnection(S) call of a caller resolves in this step: after the
\* attempt it started or joined, or at once with the cached connection
ResolvesConn(S) ==
    /\ lastRes'.res = "conn"
    /\ lastRes'.op = "get"
    /\ lastRes'.server = S
    /\ \/ \E t \in Tasks : /\ tasks[t].op = "get"
                            /\ tasks[t].server = S
                            /\ tasks[t].pc \in {"awaitOwn", "awaitExisting"}
                            /\ tasks'[t].pc = "idle"
       \/ GetConnectionCall(S) /\ tasks' = tasks

\* C31: when getConnection(S) resolves with a connection, the tracked state
\* of S is healthy with retry count 0, the registry's record for S is that
\* connection, connected, and 'connection-established' was emitted for it.
C31_SuccessPostcondition ==
    [][\A S \in Servers :
         ResolvesConn(S) =>
           LET k == connections'[S] IN
           /\ k # NoState
           /\ lastRes'.conn = k
           /\ IsConnectionHealthy(st'[k])
           /\ st'[k].retryCount = 0
           /\ st'[k].established
           /\ regConn'[S] = k]_vars

\* getConnection(S) is called in this step on an initialized manager that
\* has no healthy state of S and no config of S
GetsUnregistered(S) ==
    /\ mInitialized
    /\ S \notin regServers
    /\ ~(connections[S] # NoState /\ IsConnectionHealthy(st[connections[S]]))
    /\ registry' = registry
    /\ GetConnectionCall(S)

\* C24: getConnection(S) on an initialized manager with no healthy state of
\* S and no config of S in the registry throws ConfigurationError, creates
\* no state and starts no attempt; every state is created for a name that
\* is registered in that step.
C24_StateOnlyForRegistered ==
    [][/\ Len(st') > Len(st) => st'[Len(st')].server \in regServers
       /\ \A S \in Servers :
            GetsUnregistered(S) =>
              /\ lastRes' = [op |-> "get", server |-> S,
                             res |-> "ConfigurationError", conn |-> NoState,
                             waited |-> FALSE, cached |-> FALSE]
              /\ st' = st
              /\ connections' = connections
              /\ tasks' = tasks]_vars

\* getConnection has been refused for a server that is not registered while
\* the manager still tracks a failed state of it
C24_Witness ==
    /\ mInitialized
    /\ lastRes.op = "get"
    /\ lastRes.res = "ConfigurationError"
    /\ lastRes.server \notin regServers
    /\ connections[lastRes.server] # NoState

\* C25: unregister of a registered name returns true, removes the config and
\* the connection record of that name and leaves those of every other name;
\* unregister of an unknown name returns false and changes nothing.
C25_UnregisterFrame ==
    [][(regRes' # regRes /\ regRes'.op = "unregister") =>
         LET n == regRes'.name IN
         IF n \in regServers
         THEN /\ regRes'.res = "true"
              /\ regServers' = regServers \ {n}
              /\ regConfig'[n] = NoConfig
              /\ regConn'[n] = NoState
              /\ \A S \in Servers \ {n} :
                   /\ regConfig'[S] = regConfig[S]
                   /\ regConn'[S] = regConn[S]
         ELSE /\ regRes'.res = "false"
              /\ regServers' = regServers
              /\ regConfig' = regConfig
              /\ regConn' = regConn]_vars

\* a server has been unregistered while the other one is registered and has
\* a connection record
C25_Witness ==
    /\ regRes.op = "unregister"
    /\ regRes.res = "true"
    /\ \E S \in regServers : regConn[S] # NoState

\* the registry an empty one becomes by import(data)
Imported(data) ==
    LET ok == ImportInto({}, data) IN
    [names |-> ok,
     conf |-> [S \in Servers |->
                 IF S \in ok THEN Stored(S, data[S]) ELSE NoConfig]]

\* C26: import of export() into an empty registry gives the names and the
\* configs of the exporting registry; import registers every entry of the
\* batch that register accepts, skips the others and does not throw.
C26_ExportImportRoundTrip ==
    /\ [](Imported(Export) = [names |-> regServers, conf |-> regConfig])
    /\ [][(regRes' # regRes /\ regRes'.op = "import") =>
            LET data == regRes'.data IN
            /\ regRes'.res = "ok"
            /\ \A n \in Servers :
                 IF /\ n \in DOMAIN data
                    /\ n \notin regServers
                    /\ ValidateConfig(data[n]) = "ok"
                 THEN /\ n \in regServers'
                      /\ regConfig'[n] = Stored(n, data[n])
                 ELSE /\ n \in regServers' <=> n \in regServers
                      /\ regConfig'[n] = regConfig[n]]_vars

\* an import has registered one entry of a batch and skipped another that
\* fails validation, into a registry of two servers
C26_Witness ==
    /\ regRes.op = "import"
    /\ regServers = Servers
    /\ \E n \in DOMAIN regRes.data \cap Servers :
         /\ ValidateConfig(regRes.data[n]) = "ok"
         /\ regConfig[n] = Stored(n, regRes.data[n])
    /\ \E n \in DOMAIN regRes.data \cap Servers :
         ValidateConfig(regRes.data[n]) # "ok"

\* the entries of the namespaced map of class K that server S owns
OwnedBy(a, K, S) ==
    {nsMap[a][K][k] : k \in {j \in DOMAIN nsMap[a][K] :
                                nsMap[a][K][j].server_name = S}}

====
